---------------------------- MODULE Spec2Model ----------------------------
(***************************************************************************)
(* A model of the numeric core of the HydraDX math library: the stableswap *)
(* Newton solvers, the omnipool trade and liquidity state changes and the  *)
(* EMA oracle averages.                                                    *)
(*                                                                         *)
(* Every routine of the library is a pure function.  A behaviour of the    *)
(* model is one call: the initial state holds the routine's name and its   *)
(* arguments (drawn from bounded sets) with the result still pending, and  *)
(* the routine's action stores the value the code computes.                *)
(*                                                                         *)
(* Balances are u128 and intermediates U256 in the source.  The values     *)
(* explored here stay far below either width, so a checked_add/checked_mul *)
(* never overflows in the model; the checked_sub, checked_div and index    *)
(* failures, which do not depend on the width, are modelled exactly.       *)
(***************************************************************************)
EXTENDS Integers, Sequences, FiniteSets, TLC

VARIABLES fn, args, ret

vars == <<fn, args, ret>>

(***************************************************************************)
(* Option<Balance>, plus the abort of an out-of-bounds slice index.        *)
(***************************************************************************)
Some(x) == [tag |-> "Some", v |-> x]

None == [tag |-> "None", v |-> 0]

Panic == [tag |-> "Panic", v |-> 0]

Pending == [tag |-> "Pending", v |-> 0]

IsSome(r) == r.tag = "Some"

Min(a, b) == IF a <= b THEN a ELSE b

Max(a, b) == IF a >= b THEN a ELSE b

RECURSIVE Pow(_, _)
Pow(b, e) == IF e = 0 THEN 1 ELSE b * Pow(b, e - 1)

RECURSIVE SeqSum(_)
SeqSum(s) == IF s = <<>> THEN 0 ELSE Head(s) + SeqSum(Tail(s))

RECURSIVE SeqProd(_)
SeqProd(s) == IF s = <<>> THEN 1 ELSE Head(s) * SeqProd(Tail(s))

(***************************************************************************)
(* Bounds of the explored inputs.                                          *)
(***************************************************************************)
MaxReserve2 == 18

MaxReserve3 == 5

MaxAmp == 3

MaxPrecision == 3

MaxIter == 8

MaxTrade == 5

MaxTradeReserve2 == 8

MaxTradeReserve3 == 3

MaxShareReserve == 6

MaxIssuance == 3

MaxYD == 12

MaxOmni == 4

MaxSwap == 5

MaxLiq == 3

\* A total hub reserve several times the fixed-point divisor.
LargeHub == 4995

--------------------------------------------------------------------------
(***************************************************************************)
(* Stableswap: src/src/stableswap/math.rs                                  *)
(***************************************************************************)

\* xp.iter().filter(|v| !v.is_zero())
RECURSIVE DropZeros(_)
DropZeros(s) ==
    IF s = <<>> THEN <<>>
    ELSE IF Head(s) = 0 THEN DropZeros(Tail(s))
    ELSE <<Head(s)>> \o DropZeros(Tail(s))

RECURSIVE Insert(_, _)
Insert(x, s) ==
    IF s = <<>> THEN <<x>>
    ELSE IF x <= Head(s) THEN <<x>> \o s
    ELSE <<Head(s)>> \o Insert(x, Tail(s))

\* Mutant of Sort: the reserves are left in the order given.
Unsorted(s) == s

\* xp_hp.sort()
RECURSIVE Sort(_)
Sort(s) == IF s = <<>> THEN <<>> ELSE Insert(Head(s), Sort(Tail(s)))

\* amplification * n^n: len folds of acc * len
calculate_ann(len, amplification) == amplification * Pow(len, len)

abs_diff(d0, d1) == IF d1 >= d0 THEN d1 - d0 ELSE d0 - d1

has_converged(v0, v1, precision) ==
    LET diff == abs_diff(v0, v1)
    IN  (v1 <= v0 /\ diff < precision) \/ (v1 > v0 /\ diff <= precision)

\* try_fold(d, |acc, v| acc * d / (v * n_coins)); v > 0 after the filter, so
\* the division fails only for an empty product n_coins = 0, which has no v.
RECURSIVE d_p_fold(_, _, _, _)
d_p_fold(acc, d, xp_hp, n_coins) ==
    IF xp_hp = <<>> THEN acc
    ELSE d_p_fold((acc * d) \div (Head(xp_hp) * n_coins), d, Tail(xp_hp), n_coins)

\* The rounding correction added to every Newton iterate of D.
d_correction == 2

\* Mutant of d_step: the iterate is taken without the correction of 2.
d_step_uncorrected(d, xp_hp, s_hp, ann, n_coins) ==
    LET d_p == d_p_fold(d, d, xp_hp, n_coins)
        denom == (ann - 1) * d + (n_coins + 1) * d_p
    IN  IF ann < 1 \/ denom = 0 THEN None
        ELSE Some(((ann * s_hp + d_p * n_coins) * d) \div denom)

\* Mutant of d_step: the sum of the reserves is left out of the numerator.
d_step_without_sum(d, xp_hp, s_hp, ann, n_coins) ==
    LET d_p == d_p_fold(d, d, xp_hp, n_coins)
        denom == (ann - 1) * d + (n_coins + 1) * d_p
    IN  IF ann < 1 \/ denom = 0 THEN None
        ELSE Some((((ann + d_p * n_coins) * d) \div denom) + d_correction)

\* One pass of the loop body of calculate_d: the next iterate, or None when
\* a checked operation fails (ann - 1 underflows, or the divisor is zero).
d_step(d, xp_hp, s_hp, ann, n_coins) ==
    LET d_p == d_p_fold(d, d, xp_hp, n_coins)
        denom == (ann - 1) * d + (n_coins + 1) * d_p
    IN  IF ann < 1 \/ denom = 0 THEN None
        ELSE Some((((ann * s_hp + d_p * n_coins) * d) \div denom) + d_correction)

\* Mutant of d_loop: reaching the iteration cap without convergence is a
\* failure.
RECURSIVE d_loop_fails_at_cap(_, _, _, _, _, _, _)
d_loop_fails_at_cap(left, d, xp_hp, s_hp, ann, n_coins, precision) ==
    IF left = 0 THEN [tag |-> "None", v |-> 0, converged |-> FALSE]
    ELSE LET nxt == d_step(d, xp_hp, s_hp, ann, n_coins)
         IN  IF ~IsSome(nxt) THEN [tag |-> "None", v |-> 0, converged |-> FALSE]
             ELSE IF has_converged(d, nxt.v, precision)
                  THEN [tag |-> "Some", v |-> nxt.v, converged |-> TRUE]
                  ELSE d_loop_fails_at_cap(left - 1, nxt.v, xp_hp, s_hp, ann, n_coins,
                                           precision)

\* for _ in 0..N: [tag, v, converged] after at most `left` more passes.
RECURSIVE d_loop(_, _, _, _, _, _, _)
d_loop(left, d, xp_hp, s_hp, ann, n_coins, precision) ==
    IF left = 0 THEN [tag |-> "Some", v |-> d, converged |-> FALSE]
    ELSE LET nxt == d_step(d, xp_hp, s_hp, ann, n_coins)
         IN  IF ~IsSome(nxt) THEN [tag |-> "None", v |-> 0, converged |-> FALSE]
             ELSE IF has_converged(d, nxt.v, precision)
                  THEN [tag |-> "Some", v |-> nxt.v, converged |-> TRUE]
                  ELSE d_loop(left - 1, nxt.v, xp_hp, s_hp, ann, n_coins, precision)

\* calculate_d::<N> with the flag telling whether has_converged ended it.
calculate_d_run(N, xp, amplification, precision) ==
    LET xp_hp == Sort(DropZeros(xp))
        n_coins == Len(xp_hp)
        ann == calculate_ann(n_coins, amplification)
        s_hp == SeqSum(xp_hp)
    IN  IF s_hp = 0 THEN [tag |-> "Some", v |-> 0, converged |-> FALSE]
        ELSE d_loop(N, s_hp, xp_hp, s_hp, ann, n_coins, precision)

calculate_d(N, xp, amplification, precision) ==
    LET r == calculate_d_run(N, xp, amplification, precision)
    IN  [tag |-> r.tag, v |-> r.v]

\* The rounding correction added to every Newton iterate of Y.
y_correction == 2

\* c = c * d / (reserve * n_coins) for every reserve (all non-zero).
RECURSIVE c_fold(_, _, _, _)
c_fold(c, d, xp_hp, n_coins) ==
    IF xp_hp = <<>> THEN c
    ELSE c_fold((c * d) \div (Head(xp_hp) * n_coins), d, Tail(xp_hp), n_coins)

\* Mutant of y_step: the iterate without the rounding correction.
y_step_uncorrected(y, b, c, d) ==
    LET denom == 2 * y + b - d
    IN  IF denom <= 0 THEN None
        ELSE Some((y * y + c) \div denom)

\* One pass of the loop body of calculate_y: None when 2y + b - d underflows
\* or is the zero divisor.
y_step(y, b, c, d) ==
    LET denom == 2 * y + b - d
    IN  IF denom <= 0 THEN None
        ELSE Some(((y * y + c) \div denom) + y_correction)

RECURSIVE y_loop(_, _, _, _, _, _)
y_loop(left, y, b, c, d, precision) ==
    IF left = 0 THEN Some(y)
    ELSE LET nxt == y_step(y, b, c, d)
         IN  IF ~IsSome(nxt) THEN None
             ELSE IF has_converged(y, nxt.v, precision) THEN nxt
             ELSE y_loop(left - 1, nxt.v, b, c, d, precision)

calculate_y(N, xp, d, amplification, precision) ==
    LET xp_hp == Sort(DropZeros(xp))
        n_coins == Len(xp_hp) + 1
        ann == calculate_ann(n_coins, amplification)
        s_hp == SeqSum(xp_hp)
    IN  \* checked_div by ann * n_coins and by ann
        IF ann = 0 THEN None
        ELSE LET c == (c_fold(d, d, xp_hp, n_coins) * d) \div (ann * n_coins)
                 b == s_hp + (d \div ann)
             IN  y_loop(N, d, b, c, d, precision)

\* balances.iter().enumerate().filter(|(idx, _)| *idx != drop)
\*     .map(|(idx, v)| if idx == put { value } else { *v })
\* Indices are 0-based as in the source; the sequence is 1-based.
RECURSIVE filter_map_from(_, _, _, _, _)
filter_map_from(idx, balances, drop, put, value) ==
    IF idx >= Len(balances) THEN <<>>
    ELSE LET rest == filter_map_from(idx + 1, balances, drop, put, value)
         IN  IF idx = drop THEN rest
             ELSE IF idx = put THEN <<value>> \o rest
             ELSE <<balances[idx + 1]>> \o rest

\* Mutant of y_given_index_guard: the index one past the end is rejected too.
y_given_index_guard_inclusive(idx_in, idx_out, len) == idx_in >= len \/ idx_out >= len

y_given_index_guard(idx_in, idx_out, len) == idx_in > len \/ idx_out > len

calculate_y_given_in(N, N_Y, amount, idx_in, idx_out, balances, amplification, precision) ==
    IF y_given_index_guard(idx_in, idx_out, Len(balances)) THEN None
    ELSE IF idx_in >= Len(balances) THEN Panic
    ELSE LET new_reserve_in == balances[idx_in + 1] + amount
             d == calculate_d(N, balances, amplification, precision)
         IN  IF ~IsSome(d) THEN None
             ELSE calculate_y(N_Y,
                     filter_map_from(0, balances, idx_out, idx_in, new_reserve_in),
                     d.v, amplification, precision)

calculate_y_given_out(N, N_Y, amount, idx_in, idx_out, balances, amplification, precision) ==
    IF y_given_index_guard(idx_in, idx_out, Len(balances)) THEN None
    ELSE IF idx_out >= Len(balances) THEN Panic
    ELSE IF balances[idx_out + 1] < amount THEN None
    ELSE LET new_reserve_out == balances[idx_out + 1] - amount
             d == calculate_d(N, balances, amplification, precision)
         IN  IF ~IsSome(d) THEN None
             ELSE calculate_y(N_Y,
                     filter_map_from(0, balances, idx_in, idx_out, new_reserve_out),
                     d.v, amplification, precision)

calculate_out_given_in(N, N_Y, balances, idx_in, idx_out, amount_in, amplification, precision) ==
    LET new_reserve_out ==
            calculate_y_given_in(N, N_Y, amount_in, idx_in, idx_out, balances,
                                 amplification, precision)
    IN  IF ~IsSome(new_reserve_out) THEN new_reserve_out
        ELSE IF idx_out >= Len(balances) THEN Panic
        ELSE IF balances[idx_out + 1] < new_reserve_out.v THEN None
        ELSE Some(balances[idx_out + 1] - new_reserve_out.v)

calculate_in_given_out(N, N_Y, balances, idx_in, idx_out, amount_out, amplification, precision) ==
    LET new_reserve_in ==
            calculate_y_given_out(N, N_Y, amount_out, idx_in, idx_out, balances,
                                  amplification, precision)
    IN  IF ~IsSome(new_reserve_in) THEN new_reserve_in
        ELSE IF idx_in >= Len(balances) THEN Panic
        ELSE IF new_reserve_in.v < balances[idx_in + 1] THEN None
        ELSE Some(new_reserve_in.v - balances[idx_in + 1])

\* The subtraction that forces updated_d to be rounded down.
shares_d_margin == 2

\* Mutant of calculate_shares: updated_d is not reduced by the margin.
calculate_shares_no_margin(N, initial_reserves, updated_reserves, amplification, precision, share_issuance) ==
    LET initial_d == calculate_d(N, initial_reserves, amplification, precision)
        updated == calculate_d(N, updated_reserves, amplification, precision)
    IN  IF ~IsSome(initial_d) \/ ~IsSome(updated) THEN None
        ELSE IF updated.v < initial_d.v THEN None
        ELSE IF share_issuance = 0 THEN Some(updated.v)
        ELSE IF initial_d.v = 0 THEN None
        ELSE Some((share_issuance * (updated.v - initial_d.v)) \div initial_d.v)

calculate_shares(N, initial_reserves, updated_reserves, amplification, precision, share_issuance) ==
    LET initial_d == calculate_d(N, initial_reserves, amplification, precision)
        updated == calculate_d(N, updated_reserves, amplification, precision)
    IN  IF ~IsSome(initial_d) \/ ~IsSome(updated) THEN None
        ELSE IF updated.v < shares_d_margin THEN None
        ELSE LET updated_d == updated.v - shares_d_margin
             IN  IF updated_d < initial_d.v THEN None
                 ELSE IF share_issuance = 0 THEN Some(updated_d)
                 \* checked_div(d0)
                 ELSE IF initial_d.v = 0 THEN None
                 ELSE Some((share_issuance * (updated_d - initial_d.v)) \div initial_d.v)

--------------------------------------------------------------------------
\* Permill::mul_floor as used by calculate_withdraw_one_asset:
\* floor(x * parts / 1_000_000).
permill_mul_floor(parts, x) == (x * parts) \div 1000000

\* reserves.iter().enumerate().filter(|(idx, _)| *idx != asset_index): the
\* reserves without the one at the 0-based asset_index.
without_index(reserves, asset_index) ==
    LET keep == {k \in 1..Len(reserves) : k - 1 # asset_index}
    IN  [k \in 1..Cardinality(keep) |->
            IF k - 1 < asset_index THEN reserves[k] ELSE reserves[k + 1]]

\* One pass of the loop over xp_hp: the reserve at the 0-based idx after the
\* fee on its expected change, or None when a checked operation fails.
withdraw_reduced(idx, reserves, asset_index, d1, d_hp, y, fee) ==
    LET reserve == reserves[idx + 1]
    IN  IF d_hp = 0 THEN None
        ELSE IF idx = asset_index /\ (reserve * d1) \div d_hp < y THEN None
        ELSE LET expected == IF idx = asset_index
                             THEN ((reserve * d1) \div d_hp) - y
                             ELSE reserve - ((reserve * d1) \div d_hp)
                 charged == permill_mul_floor(fee, expected)
             IN  IF charged > reserve THEN None ELSE Some(reserve - charged)

\* Mutant of withdraw_index_guard: the index one past the end is rejected too.
withdraw_index_guard_inclusive(asset_index, len) == asset_index >= len

\* if asset_index > reserves.len() { return None; }
withdraw_index_guard(asset_index, len) == asset_index > len

calculate_withdraw_one_asset(N, N_Y, reserves, shares, asset_index, share_asset_issuance, amplification, precision, fee) ==
    IF share_asset_issuance = 0 THEN None
    ELSE IF withdraw_index_guard(asset_index, Len(reserves)) THEN None
    ELSE
    LET initial_d == calculate_d(N, reserves, amplification, precision)
    IN  IF ~IsSome(initial_d) THEN None
        ELSE
        LET d_hp == initial_d.v
            burnt == (shares * d_hp) \div share_asset_issuance
        IN  IF burnt > d_hp THEN None
            ELSE
            LET d1 == d_hp - burnt
                xp == without_index(reserves, asset_index)
                y == calculate_y(N_Y, xp, d1, amplification, precision)
            IN  IF ~IsSome(y) THEN None
                ELSE
                LET reduced == [k \in 1..Len(reserves) |->
                                   withdraw_reduced(k - 1, reserves, asset_index, d1,
                                                    d_hp, y.v, fee)]
                IN  IF \E k \in 1..Len(reserves) : ~IsSome(reduced[k]) THEN None
                    ELSE
                    LET values == [k \in 1..Len(reserves) |-> reduced[k].v]
                        reserves_reduced == without_index(values, asset_index)
                        asset_reserve == IF asset_index < Len(reserves)
                                         THEN values[asset_index + 1] ELSE 0
                        y1 == calculate_y(N_Y, reserves_reduced, d1, amplification,
                                          precision)
                    IN  IF ~IsSome(y1) THEN None
                        ELSE IF asset_reserve < y1.v THEN None
                        \* reserves[asset_index]
                        ELSE IF asset_index >= Len(reserves) THEN Panic
                        ELSE IF reserves[asset_index + 1] < y.v THEN None
                        ELSE LET dy == asset_reserve - y1.v
                                 dy_0 == reserves[asset_index + 1] - y.v
                             IN  IF dy_0 < dy THEN None
                                 ELSE Some(<<dy, dy_0 - dy>>)

ReserveVectors ==
    [1..2 -> 0..MaxReserve2] \cup [1..3 -> 0..MaxReserve3]

Amplifications == 0..MaxAmp

Precisions == 0..MaxPrecision

Iterations == 0..MaxIter

TradeVectors ==
    [1..2 -> 0..MaxTradeReserve2] \cup [1..3 -> 0..MaxTradeReserve3]

\* Valid indices, the index one past the end, and an index beyond it.
TradeIndices == 0..3

TradeAmplifications == {1, MaxAmp}

TradeIterations == {0, 1, MaxIter}

TradeArgs ==
    [N : TradeIterations, N_Y : TradeIterations, balances : TradeVectors,
     idx_in : TradeIndices, idx_out : TradeIndices, amount : 0..MaxTrade,
     amplification : TradeAmplifications, precision : {1}]

ShareVectors == [1..2 -> 0..MaxShareReserve]

\* The balanced pool of 1000 and 1000 with amplification 10 and precision 1,
\* under every iteration cap.
ScenarioS4 ==
    [N : Iterations, xp : {<<1000, 1000>>}, amplification : {10}, precision : {1}]

Init_calculate_d ==
    /\ fn = "calculate_d"
    /\ args \in [N : Iterations, xp : ReserveVectors,
                 amplification : Amplifications, precision : Precisions]
                \cup ScenarioS4
    /\ ret = Pending

Do_calculate_d ==
    /\ fn = "calculate_d"
    /\ ret.tag = "Pending"
    /\ ret' = calculate_d(args.N, args.xp, args.amplification, args.precision)
    /\ UNCHANGED <<fn, args>>

Init_calculate_out_given_in ==
    /\ fn = "calculate_out_given_in"
    /\ args \in TradeArgs
    /\ ret = Pending

Do_calculate_out_given_in ==
    /\ fn = "calculate_out_given_in"
    /\ ret.tag = "Pending"
    /\ ret' = calculate_out_given_in(args.N, args.N_Y, args.balances, args.idx_in,
                  args.idx_out, args.amount, args.amplification, args.precision)
    /\ UNCHANGED <<fn, args>>

Init_calculate_in_given_out ==
    /\ fn = "calculate_in_given_out"
    /\ args \in TradeArgs
    /\ ret = Pending

Do_calculate_in_given_out ==
    /\ fn = "calculate_in_given_out"
    /\ ret.tag = "Pending"
    /\ ret' = calculate_in_given_out(args.N, args.N_Y, args.balances, args.idx_in,
                  args.idx_out, args.amount, args.amplification, args.precision)
    /\ UNCHANGED <<fn, args>>

\* The trade arguments with one cap for both solvers.
YGivenArgs == {a \in TradeArgs : a.N = a.N_Y}

Init_calculate_y_given_in ==
    /\ fn = "calculate_y_given_in"
    /\ args \in YGivenArgs
    /\ ret = Pending

Do_calculate_y_given_in ==
    /\ fn = "calculate_y_given_in"
    /\ ret.tag = "Pending"
    /\ ret' = calculate_y_given_in(args.N, args.N_Y, args.amount, args.idx_in,
                  args.idx_out, args.balances, args.amplification, args.precision)
    /\ UNCHANGED <<fn, args>>

Init_calculate_y_given_out ==
    /\ fn = "calculate_y_given_out"
    /\ args \in YGivenArgs
    /\ ret = Pending

Do_calculate_y_given_out ==
    /\ fn = "calculate_y_given_out"
    /\ ret.tag = "Pending"
    /\ ret' = calculate_y_given_out(args.N, args.N_Y, args.amount, args.idx_in,
                  args.idx_out, args.balances, args.amplification, args.precision)
    /\ UNCHANGED <<fn, args>>

Init_calculate_shares ==
    /\ fn = "calculate_shares"
    /\ args \in [N : {MaxIter}, initial_reserves : ShareVectors,
                 updated_reserves : ShareVectors, amplification : Amplifications,
                 precision : {1}, share_issuance : 0..MaxIssuance]
    /\ ret = Pending

Do_calculate_shares ==
    /\ fn = "calculate_shares"
    /\ ret.tag = "Pending"
    /\ ret' = calculate_shares(args.N, args.initial_reserves, args.updated_reserves,
                  args.amplification, args.precision, args.share_issuance)
    /\ UNCHANGED <<fn, args>>

\* The reserves other than the one solved for.
YVectors == [1..1 -> 0..MaxTradeReserve2] \cup [1..2 -> 0..MaxTradeReserve3]

Init_calculate_y ==
    /\ fn = "calculate_y"
    /\ args \in [N : Iterations, xp : YVectors, d : 0..MaxYD,
                 amplification : Amplifications, precision : Precisions]
    /\ ret = Pending

Do_calculate_y ==
    /\ fn = "calculate_y"
    /\ ret.tag = "Pending"
    /\ ret' = calculate_y(args.N, args.xp, args.d, args.amplification, args.precision)
    /\ UNCHANGED <<fn, args>>

WithdrawArgs ==
    [N : TradeIterations, N_Y : TradeIterations, reserves : ShareVectors,
     shares : 0..MaxIssuance, asset_index : TradeIndices,
     share_asset_issuance : 0..MaxIssuance, amplification : TradeAmplifications,
     precision : {1}, fee : {0, 500000}]

Init_calculate_withdraw_one_asset ==
    /\ fn = "calculate_withdraw_one_asset"
    /\ args \in WithdrawArgs
    /\ ret = Pending

Do_calculate_withdraw_one_asset ==
    /\ fn = "calculate_withdraw_one_asset"
    /\ ret.tag = "Pending"
    /\ ret' = calculate_withdraw_one_asset(args.N, args.N_Y, args.reserves, args.shares,
                  args.asset_index, args.share_asset_issuance, args.amplification,
                  args.precision, args.fee)
    /\ UNCHANGED <<fn, args>>

InitStableswap ==
    \/ Init_calculate_d
    \/ Init_calculate_out_given_in
    \/ Init_calculate_in_given_out
    \/ Init_calculate_shares
    \/ Init_calculate_y
    \/ Init_calculate_withdraw_one_asset
    \/ Init_calculate_y_given_in
    \/ Init_calculate_y_given_out

NextStableswap ==
    \/ Do_calculate_d
    \/ Do_calculate_out_given_in
    \/ Do_calculate_in_given_out
    \/ Do_calculate_shares
    \/ Do_calculate_y
    \/ Do_calculate_withdraw_one_asset
    \/ Do_calculate_y_given_in
    \/ Do_calculate_y_given_out

SpecStableswap == InitStableswap /\ [][NextStableswap]_vars

--------------------------------------------------------------------------
(***************************************************************************)
(* The true invariant D of reserves x_1..x_n is the positive root of       *)
(*   f(D) = (ann - 1) D + D^(n+1) / (n^n prod x) - ann * sum x,            *)
(* which is increasing in D.  Multiplied by n^n prod x it is an integer:   *)
(* InvariantExcess(xp, A, D) >= 0 iff D >= true D, and <= 0 iff            *)
(* D <= true D.                                                            *)
(***************************************************************************)
InvariantExcess(xp, amplification, D) ==
    LET xs == DropZeros(xp)
        n == Len(xs)
        ann == calculate_ann(n, amplification)
        scale == Pow(n, n) * SeqProd(xs)
    IN  (ann - 1) * D * scale + Pow(D, n + 1) - ann * SeqSum(xs) * scale

Done(name) == fn = name /\ ret.tag # "Pending"

ReservesAtLeast(xp, m) == \A k \in 1..Len(xp) : xp[k] >= m

C1_Case ==
    /\ Done("calculate_d")
    /\ ReservesAtLeast(args.xp, 2)
    /\ args.amplification >= 1
    /\ IsSome(ret)
    /\ calculate_d_run(args.N, args.xp, args.amplification, args.precision).converged

\* C1: for reserves all >= 2 and A >= 1, a converged calculate_d returns a
\* value that is >= the true D and at most 2 above it.
C1_DWithinTwoOfTrueD ==
    C1_Case =>
        /\ InvariantExcess(args.xp, args.amplification, ret.v) >= 0
        /\ InvariantExcess(args.xp, args.amplification, ret.v - 2) <= 0

\* C1, the half that holds: the converged value is never below the true D.
C1_DNotBelowTrueD ==
    C1_Case => InvariantExcess(args.xp, args.amplification, ret.v) >= 0

C2_in2 ==
    calculate_in_given_out(args.N, args.N_Y, args.balances, args.idx_in,
        args.idx_out, ret.v, args.amplification, args.precision)

C2_Case ==
    /\ Done("calculate_out_given_in")
    /\ args.idx_in # args.idx_out
    /\ IsSome(ret)
    /\ IsSome(C2_in2)

\* C2 as stated: out_given_in followed by in_given_out for the received
\* amount returns an input >= the original input.  (Stated for the pools the
\* solver is meant for: every balance >= 2, the full iteration cap, and a
\* non-zero amount received.)
C2_RoundTripInputNotSmaller ==
    (C2_Case /\ ReservesAtLeast(args.balances, 2) /\ args.N = MaxIter /\ ret.v > 0)
        => C2_in2.v >= args.amount

\* The balances after idx_in received amount_in and idx_out paid amount_out.
BalancesAfter(balances, idx_in, idx_out, amount_in, amount_out) ==
    [k \in 1..Len(balances) |->
        IF k = idx_in + 1 THEN balances[k] + amount_in
        ELSE IF k = idx_out + 1 THEN balances[k] - amount_out
        ELSE balances[k]]

\* C2 amended: the input in_given_out quotes for the received amount may be
\* smaller than the original input, but it never underpays the pool: the
\* balances after paying it and taking the amount out have a true D that is
\* not below the D computed for the balances before.
C2_RoundTripPoolNotUnderpaid ==
    C2_Case =>
        InvariantExcess(
            BalancesAfter(args.balances, args.idx_in, args.idx_out, C2_in2.v, ret.v),
            args.amplification,
            calculate_d(args.N, args.balances, args.amplification, args.precision).v) <= 0

\* C2 witness: a round trip on a pool with every balance >= 2 that moved a
\* non-zero amount and quoted less than the original input.
C2_Witness ==
    /\ C2_Case
    /\ ReservesAtLeast(args.balances, 2)
    /\ args.N = MaxIter
    /\ ret.v > 0
    /\ C2_in2.v < args.amount

C8_D0 == calculate_d(args.N, args.initial_reserves, args.amplification, args.precision)

C8_Dupd == calculate_d(args.N, args.updated_reserves, args.amplification, args.precision)

\* C8: calculate_shares computes D0 = D(initial) and D1 = D(updated) - 2; it
\* returns None when either D fails or D1 < D0 (also when D(updated) < 2),
\* Some(D1) when share_issuance = 0 and otherwise
\* Some(floor(share_issuance * (D1 - D0) / D0)), which needs D0 > 0.
C8_SharesFormula ==
    Done("calculate_shares") =>
        IF ~IsSome(C8_D0) \/ ~IsSome(C8_Dupd) THEN ret = None
        ELSE IF C8_Dupd.v - 2 < C8_D0.v THEN ret = None
        ELSE IF args.share_issuance = 0 THEN ret = Some(C8_Dupd.v - 2)
        ELSE IF C8_D0.v > 0
             THEN ret = Some((args.share_issuance * (C8_Dupd.v - 2 - C8_D0.v)) \div C8_D0.v)
             ELSE ret = None

\* C8 witness: shares issued pro rata for a deposit into a pool with shares.
C8_Witness ==
    /\ Done("calculate_shares")
    /\ args.share_issuance > 0
    /\ IsSome(ret)
    /\ ret.v > 0
    /\ ret.v < args.share_issuance

--------------------------------------------------------------------------
(***************************************************************************)
(* Omnipool: src/src/omnipool/math.rs                                      *)
(***************************************************************************)

\* Permill::ACCURACY: Permill::from_percent(100) is this many parts.
PermillAccuracy == 1000000

\* Mutant of mul_floor: the product is rounded up.
mul_ceil(parts, x) == (x * parts + PermillAccuracy - 1) \div PermillAccuracy

\* Permill::mul_floor: floor(x * parts / 10^6).
mul_floor(parts, x) == (x * parts) \div PermillAccuracy

\* Permill::from_percent(100).checked_sub(&fee)?.mul_floor(amount); the
\* subtraction cannot fail, a Permill being at most 100%.
amount_without_fee(amount, fee) == mul_floor(PermillAccuracy - fee, amount)

\* The scaling of FixedU128.  The library's divisor is 10^18; the model
\* keeps the arithmetic and takes a divisor its integers can hold.
FixedDIV == 1000

\* FixedU128::checked_from_rational(n, d): floor(n * DIV / d) as the inner
\* value, None for d = 0.
checked_from_rational(n, d) ==
    IF d = 0 THEN None ELSE Some((n * FixedDIV) \div d)

\* FixedU128::checked_mul on inner values: a * b / DIV rounded to the nearest
\* representable value, down on a tie.
fixed_checked_mul(a, b) ==
    LET p == a * b
    IN  IF 2 * (p % FixedDIV) > FixedDIV THEN (p \div FixedDIV) + 1
        ELSE p \div FixedDIV

\* FixedU128::checked_mul_int: floor(inner * n / DIV).
checked_mul_int(a, n) == (a * n) \div FixedDIV

\* FixedU128::from_inner(inner).checked_div(&permill.into()).into_inner().
\* The divisor's inner value is parts * (DIV / 10^6) with DIV / 10^6 whole, so
\* floor(inner * DIV / (parts * DIV / 10^6)) = floor(inner * 10^6 / parts).
fixed_div_by_permill(inner, parts) ==
    IF parts = 0 THEN None ELSE Some((inner * PermillAccuracy) \div parts)

Increase(x) == [dir |-> "Increase", value |-> x]

Decrease(x) == [dir |-> "Decrease", value |-> x]

NoTrade == [tag |-> "None"]

\* Mutant of calculate_sell_state_changes: the 1 - asset_fee factor is
\* applied to the hub amount instead of the reserve paid out.
calculate_sell_state_changes_fee_on_hub(asset_in_state, asset_out_state, amount, asset_fee, protocol_fee, imbalance) ==
    IF asset_in_state.reserve + amount = 0 THEN NoTrade
    ELSE
    LET delta_hub_reserve_in ==
            (amount * asset_in_state.hub_reserve) \div (asset_in_state.reserve + amount)
        protocol_fee_amount == mul_floor(protocol_fee, delta_hub_reserve_in)
        delta_hub_reserve_out ==
            amount_without_fee(delta_hub_reserve_in - protocol_fee_amount, asset_fee)
    IN  IF asset_out_state.hub_reserve + delta_hub_reserve_out = 0 THEN NoTrade
        ELSE
        LET delta_reserve_out ==
                (asset_out_state.reserve * delta_hub_reserve_out)
                    \div (asset_out_state.hub_reserve + delta_hub_reserve_out)
            delta_imbalance == Min(protocol_fee_amount, imbalance)
        IN  [tag |-> "Some",
             asset_in |-> [delta_reserve |-> Increase(amount),
                           delta_hub_reserve |-> Decrease(delta_hub_reserve_in)],
             asset_out |-> [delta_reserve |-> Decrease(delta_reserve_out),
                            delta_hub_reserve |-> Increase(delta_hub_reserve_out)],
             delta_imbalance |-> Decrease(delta_imbalance),
             hdx_hub_amount |-> protocol_fee_amount - delta_imbalance]

\* Mutant of calculate_sell_state_changes: the hub amount is priced at the
\* spot price of the asset sold, without the amount in the divisor.
calculate_sell_state_changes_spot_priced(asset_in_state, asset_out_state, amount, asset_fee, protocol_fee, imbalance) ==
    \* checked_div(in_reserve + in_amount)
    IF asset_in_state.reserve + amount = 0 THEN NoTrade
    ELSE
    LET delta_hub_reserve_in ==
            (amount * asset_in_state.hub_reserve) \div Max(asset_in_state.reserve, 1)
        protocol_fee_amount == mul_floor(protocol_fee, delta_hub_reserve_in)
        \* checked_sub: the fee is at most the amount
        delta_hub_reserve_out == delta_hub_reserve_in - protocol_fee_amount
    IN  IF asset_out_state.hub_reserve + delta_hub_reserve_out = 0 THEN NoTrade
        ELSE
        LET delta_reserve_out ==
                amount_without_fee(
                    (asset_out_state.reserve * delta_hub_reserve_out)
                        \div (asset_out_state.hub_reserve + delta_hub_reserve_out),
                    asset_fee)
            delta_imbalance == Min(protocol_fee_amount, imbalance)
            \* checked_sub: delta_imbalance <= protocol_fee_amount
            hdx_fee_amount == protocol_fee_amount - delta_imbalance
        IN  [tag |-> "Some",
             asset_in |-> [delta_reserve |-> Increase(amount),
                           delta_hub_reserve |-> Decrease(delta_hub_reserve_in)],
             asset_out |-> [delta_reserve |-> Decrease(delta_reserve_out),
                            delta_hub_reserve |-> Increase(delta_hub_reserve_out)],
             delta_imbalance |-> Decrease(delta_imbalance),
             hdx_hub_amount |-> hdx_fee_amount]

calculate_sell_state_changes(asset_in_state, asset_out_state, amount, asset_fee, protocol_fee, imbalance) ==
    \* checked_div(in_reserve + in_amount)
    IF asset_in_state.reserve + amount = 0 THEN NoTrade
    ELSE
    LET delta_hub_reserve_in ==
            (amount * asset_in_state.hub_reserve) \div (asset_in_state.reserve + amount)
        protocol_fee_amount == mul_floor(protocol_fee, delta_hub_reserve_in)
        \* checked_sub: the fee is at most the amount
        delta_hub_reserve_out == delta_hub_reserve_in - protocol_fee_amount
    IN  IF asset_out_state.hub_reserve + delta_hub_reserve_out = 0 THEN NoTrade
        ELSE
        LET delta_reserve_out ==
                amount_without_fee(
                    (asset_out_state.reserve * delta_hub_reserve_out)
                        \div (asset_out_state.hub_reserve + delta_hub_reserve_out),
                    asset_fee)
            delta_imbalance == Min(protocol_fee_amount, imbalance)
            \* checked_sub: delta_imbalance <= protocol_fee_amount
            hdx_fee_amount == protocol_fee_amount - delta_imbalance
        IN  [tag |-> "Some",
             asset_in |-> [delta_reserve |-> Increase(amount),
                           delta_hub_reserve |-> Decrease(delta_hub_reserve_in)],
             asset_out |-> [delta_reserve |-> Decrease(delta_reserve_out),
                            delta_hub_reserve |-> Increase(delta_hub_reserve_out)],
             delta_imbalance |-> Decrease(delta_imbalance),
             hdx_hub_amount |-> hdx_fee_amount]

\* Mutant of calculate_buy_state_changes: neither division is rounded up.
calculate_buy_state_changes_round_down(asset_in_state, asset_out_state, amount, asset_fee, protocol_fee, imbalance) ==
    LET reserve_no_fee == amount_without_fee(asset_out_state.reserve, asset_fee)
    IN  IF reserve_no_fee <= amount THEN NoTrade
        ELSE
        LET delta_hub_reserve_out ==
                (asset_out_state.hub_reserve * amount) \div (reserve_no_fee - amount)
            in_fixed == fixed_div_by_permill(delta_hub_reserve_out,
                                             PermillAccuracy - protocol_fee)
        IN  IF ~IsSome(in_fixed) THEN NoTrade
            ELSE IF in_fixed.v >= asset_in_state.hub_reserve THEN NoTrade
            ELSE
            LET delta_hub_reserve_in == in_fixed.v
                delta_reserve_in ==
                    (asset_in_state.reserve * delta_hub_reserve_in)
                        \div (asset_in_state.hub_reserve - delta_hub_reserve_in)
                protocol_fee_amount == mul_floor(protocol_fee, delta_hub_reserve_in)
                delta_imbalance == Min(protocol_fee_amount, imbalance)
            IN  [tag |-> "Some",
                 asset_in |-> [delta_reserve |-> Increase(delta_reserve_in),
                               delta_hub_reserve |-> Decrease(delta_hub_reserve_in)],
                 asset_out |-> [delta_reserve |-> Decrease(amount),
                                delta_hub_reserve |-> Increase(delta_hub_reserve_out)],
                 delta_imbalance |-> Decrease(delta_imbalance),
                 hdx_hub_amount |-> protocol_fee_amount - delta_imbalance]

\* Mutant of calculate_buy_state_changes: the comparison with the asset-in
\* hub reserve is missing and the subtraction from it saturates at 1.
calculate_buy_state_changes_unguarded(asset_in_state, asset_out_state, amount, asset_fee, protocol_fee, imbalance) ==
    LET reserve_no_fee == amount_without_fee(asset_out_state.reserve, asset_fee)
    IN  IF reserve_no_fee <= amount THEN NoTrade
        ELSE
        LET delta_hub_reserve_out ==
                ((asset_out_state.hub_reserve * amount) \div (reserve_no_fee - amount)) + 1
            in_fixed == fixed_div_by_permill(delta_hub_reserve_out,
                                             PermillAccuracy - protocol_fee)
        IN  IF ~IsSome(in_fixed) THEN NoTrade
            ELSE
            LET delta_hub_reserve_in == in_fixed.v
                delta_reserve_in ==
                    ((asset_in_state.reserve * delta_hub_reserve_in)
                        \div Max(asset_in_state.hub_reserve - delta_hub_reserve_in, 1)) + 1
                protocol_fee_amount == mul_floor(protocol_fee, delta_hub_reserve_in)
                delta_imbalance == Min(protocol_fee_amount, imbalance)
            IN  [tag |-> "Some",
                 asset_in |-> [delta_reserve |-> Increase(delta_reserve_in),
                               delta_hub_reserve |-> Decrease(delta_hub_reserve_in)],
                 asset_out |-> [delta_reserve |-> Decrease(amount),
                                delta_hub_reserve |-> Increase(delta_hub_reserve_out)],
                 delta_imbalance |-> Decrease(delta_imbalance),
                 hdx_hub_amount |-> protocol_fee_amount - delta_imbalance]

calculate_buy_state_changes(asset_in_state, asset_out_state, amount, asset_fee, protocol_fee, imbalance) ==
    LET reserve_no_fee == amount_without_fee(asset_out_state.reserve, asset_fee)
    IN  \* checked_sub(out_amount), then checked_div by the difference
        IF reserve_no_fee <= amount THEN NoTrade
        ELSE
        LET delta_hub_reserve_out ==
                ((asset_out_state.hub_reserve * amount) \div (reserve_no_fee - amount)) + 1
            in_fixed == fixed_div_by_permill(delta_hub_reserve_out,
                                             PermillAccuracy - protocol_fee)
        IN  IF ~IsSome(in_fixed) THEN NoTrade
            ELSE IF in_fixed.v >= asset_in_state.hub_reserve THEN NoTrade
            ELSE
            LET delta_hub_reserve_in == in_fixed.v
                delta_reserve_in ==
                    ((asset_in_state.reserve * delta_hub_reserve_in)
                        \div (asset_in_state.hub_reserve - delta_hub_reserve_in)) + 1
                protocol_fee_amount == mul_floor(protocol_fee, delta_hub_reserve_in)
                delta_imbalance == Min(protocol_fee_amount, imbalance)
                hdx_fee_amount == protocol_fee_amount - delta_imbalance
            IN  [tag |-> "Some",
                 asset_in |-> [delta_reserve |-> Increase(delta_reserve_in),
                               delta_hub_reserve |-> Decrease(delta_hub_reserve_in)],
                 asset_out |-> [delta_reserve |-> Decrease(amount),
                                delta_hub_reserve |-> Increase(delta_hub_reserve_out)],
                 delta_imbalance |-> Decrease(delta_imbalance),
                 hdx_hub_amount |-> hdx_fee_amount]

\* FixedU128::checked_from_rational(1, FixedU128::DIV): one unit in the last
\* place, inner value floor(DIV / DIV).
one_ulp == FixedDIV \div FixedDIV

\* Mutant of calculate_imbalance_in_hub_swap: y is built from the ratios
\* rounded down and without the final + 1.
calculate_imbalance_in_hub_swap_y_down(total_hub_reserve, asset_reserve, asset_hub_reserve, delta_reserve, delta_hub_reserve, imbalance) ==
    LET q_plus == total_hub_reserve + delta_hub_reserve
        q_i_plus == asset_hub_reserve + delta_hub_reserve
    IN  IF delta_reserve > asset_reserve \/ asset_reserve = 0 \/ q_i_plus = 0
           \/ total_hub_reserve = 0
        THEN None
        ELSE
        LET x1_down == checked_from_rational(asset_reserve - delta_reserve, asset_reserve).v
            x2_down == checked_from_rational(asset_hub_reserve, q_i_plus).v
            y2_down == checked_from_rational(q_plus, total_hub_reserve).v
            x == checked_mul_int(fixed_checked_mul(x1_down, x2_down), q_plus)
            y == checked_mul_int(
                     fixed_checked_mul(fixed_checked_mul(x1_down, x2_down), y2_down),
                     imbalance.value)
        IN  IF x < y \/ x - y > q_plus THEN None
            ELSE IF q_plus - (x - y) < imbalance.value THEN None
            ELSE Some(q_plus - (x - y) - imbalance.value)

calculate_imbalance_in_hub_swap(total_hub_reserve, asset_reserve, asset_hub_reserve, delta_reserve, delta_hub_reserve, imbalance) ==
    LET q == total_hub_reserve
        r_i == asset_reserve
        q_i == asset_hub_reserve
        q_plus == total_hub_reserve + delta_hub_reserve
        q_i_plus == q_i + delta_hub_reserve
        imbalance_value == imbalance.value
    IN  \* r_i.checked_sub(delta_reserve), and the three checked_from_rational
        IF delta_reserve > r_i \/ r_i = 0 \/ q_i_plus = 0 \/ q = 0 THEN None
        ELSE
        LET r_i_plus == r_i - delta_reserve
            x1_down == checked_from_rational(r_i_plus, r_i).v
            x2_down == checked_from_rational(q_i, q_i_plus).v
            x1_up == checked_from_rational(r_i_plus, r_i).v + one_ulp
            x2_up == checked_from_rational(q_i, q_i_plus).v + one_ulp
            y2_up == checked_from_rational(q_plus, q).v + one_ulp
            x == checked_mul_int(fixed_checked_mul(x1_down, x2_down), q_plus)
            y == checked_mul_int(
                     fixed_checked_mul(fixed_checked_mul(x1_up, x2_up), y2_up),
                     imbalance_value) + 1
        IN  \* x.checked_sub(y), q_plus.checked_sub(..)
            IF x < y \/ x - y > q_plus THEN None
            ELSE LET imbalance_plus == q_plus - (x - y)
                 IN  IF imbalance_plus < imbalance_value THEN None
                     ELSE Some(imbalance_plus - imbalance_value)

\* Mutant of calculate_delta_imbalance: the sign of the imbalance is ignored.
calculate_delta_imbalance_any_sign(delta_hub_reserve, imbalance, hub_reserve) ==
    IF imbalance.value = 0 THEN Some(0)
    ELSE IF hub_reserve = 0 THEN None
    ELSE Some((delta_hub_reserve * imbalance.value) \div hub_reserve)

calculate_delta_imbalance(delta_hub_reserve, imbalance, hub_reserve) ==
    IF imbalance.value = 0 THEN Some(0)
    ELSE IF ~imbalance.negative THEN None
    ELSE IF hub_reserve = 0 THEN None
    ELSE Some((delta_hub_reserve * imbalance.value) \div hub_reserve)

\* AssetReserveState::price(): hub_reserve / reserve as a FixedU128.
asset_price(asset_state) ==
    checked_from_rational(asset_state.hub_reserve, asset_state.reserve)

\* Position::price(): the entry price, a ratio, as a FixedU128.
position_price_of(position) ==
    checked_from_rational(position.price[1], position.price[2])

NoLiquidity == [tag |-> "None"]

calculate_add_liquidity_state_changes(asset_state, amount, imbalance, total_hub_reserve) ==
    LET price == asset_price(asset_state)
    IN  IF ~IsSome(price) THEN NoLiquidity
        \* checked_div(reserve_hp); asset_state.price() is None for the same reserve
        ELSE IF asset_state.reserve = 0 THEN NoLiquidity
        ELSE
        LET delta_hub_reserve == checked_mul_int(price.v, amount)
            delta_shares == (asset_state.shares * amount) \div asset_state.reserve
            delta_imbalance ==
                calculate_delta_imbalance(delta_hub_reserve, imbalance, total_hub_reserve)
        IN  IF ~IsSome(delta_imbalance) THEN NoLiquidity
            ELSE [tag |-> "Some",
                  asset |-> [delta_reserve |-> Increase(amount),
                             delta_hub_reserve |-> Increase(delta_hub_reserve),
                             delta_shares |-> Increase(delta_shares),
                             delta_protocol_shares |-> Increase(0)],
                  delta_imbalance |-> Decrease(delta_imbalance.v),
                  lp_hub_amount |-> 0,
                  delta_position_reserve |-> Increase(0),
                  delta_position_shares |-> Increase(0)]

\* position_price * current_reserve, rounded up by one.
p_x_r_of(position_price, current_reserve) ==
    checked_mul_int(position_price, current_reserve) + 1

\* Mutant of delta_b_of: the quotient is not rounded up.
delta_b_not_rounded_up(current_price, position_price, p_x_r, current_hub_reserve, shares_removed) ==
    IF current_price < position_price
    THEN IF p_x_r < current_hub_reserve THEN None
         ELSE Some(((p_x_r - current_hub_reserve) * shares_removed)
                       \div (p_x_r + current_hub_reserve))
    ELSE Some(0)

\* Protocol shares update: None when p_x_r - current_hub_reserve underflows.
delta_b_of(current_price, position_price, p_x_r, current_hub_reserve, shares_removed) ==
    IF current_price < position_price
    THEN IF p_x_r < current_hub_reserve THEN None
         ELSE Some((((p_x_r - current_hub_reserve) * shares_removed)
                       \div (p_x_r + current_hub_reserve)) + 1)
    ELSE Some(0)

\* The hub asset the LP receives: None when current_hub_reserve - p_x_r
\* underflows.
hub_transferred_of(current_price, position_price, p_x_r, current_hub_reserve, delta_shares, current_shares) ==
    IF current_price > position_price
    THEN IF current_hub_reserve < p_x_r THEN None
         ELSE LET sub == current_hub_reserve - p_x_r
                  sum == current_hub_reserve + p_x_r
                  div1 == (current_hub_reserve * sub) \div sum
              IN  Some((div1 * delta_shares) \div current_shares)
    ELSE Some(0)

\* Mutant of calculate_remove_liquidity_state_changes: all the shares removed
\* are reported as burnt, next to the protocol's part.
calculate_remove_liquidity_state_changes_all_burnt(asset_state, shares_removed, position, imbalance, total_hub_reserve) ==
    LET current_shares == asset_state.shares
        current_reserve == asset_state.reserve
        current_hub_reserve == asset_state.hub_reserve
        current_price == asset_price(asset_state)
        position_price == position_price_of(position)
    IN  IF ~IsSome(current_price) \/ ~IsSome(position_price) THEN NoLiquidity
        ELSE
        LET p_x_r == p_x_r_of(position_price.v, current_reserve)
            delta_b == delta_b_of(current_price.v, position_price.v, p_x_r,
                                  current_hub_reserve, shares_removed)
        IN  IF ~IsSome(delta_b) THEN NoLiquidity
            \* shares_removed.checked_sub(delta_b), checked_div(current_shares),
            \* checked_div(position_shares)
            ELSE IF shares_removed < delta_b.v \/ current_shares = 0
                    \/ position.shares = 0
            THEN NoLiquidity
            ELSE
            LET delta_shares == shares_removed - delta_b.v
                delta_reserve == (current_reserve * delta_shares) \div current_shares
                delta_hub_reserve ==
                    (delta_reserve * current_hub_reserve) \div current_reserve
                delta_position_amount ==
                    (shares_removed * position.amount) \div position.shares
                delta_imbalance ==
                    calculate_delta_imbalance(delta_hub_reserve, imbalance, total_hub_reserve)
                hub_transferred ==
                    hub_transferred_of(current_price.v, position_price.v, p_x_r,
                                       current_hub_reserve, delta_shares, current_shares)
            IN  IF ~IsSome(delta_imbalance) \/ ~IsSome(hub_transferred) THEN NoLiquidity
                ELSE [tag |-> "Some",
                      asset |-> [delta_reserve |-> Decrease(delta_reserve),
                                 delta_hub_reserve |-> Decrease(delta_hub_reserve),
                                 delta_shares |-> Decrease(shares_removed),
                                 delta_protocol_shares |-> Increase(delta_b.v)],
                      delta_imbalance |-> Increase(delta_imbalance.v),
                      lp_hub_amount |-> hub_transferred.v,
                      delta_position_reserve |-> Decrease(delta_position_amount),
                      delta_position_shares |-> Decrease(shares_removed)]

calculate_remove_liquidity_state_changes(asset_state, shares_removed, position, imbalance, total_hub_reserve) ==
    LET current_shares == asset_state.shares
        current_reserve == asset_state.reserve
        current_hub_reserve == asset_state.hub_reserve
        current_price == asset_price(asset_state)
        position_price == position_price_of(position)
    IN  IF ~IsSome(current_price) \/ ~IsSome(position_price) THEN NoLiquidity
        ELSE
        LET p_x_r == p_x_r_of(position_price.v, current_reserve)
            delta_b == delta_b_of(current_price.v, position_price.v, p_x_r,
                                  current_hub_reserve, shares_removed)
        IN  IF ~IsSome(delta_b) THEN NoLiquidity
            \* shares_removed.checked_sub(delta_b), checked_div(current_shares),
            \* checked_div(position_shares)
            ELSE IF shares_removed < delta_b.v \/ current_shares = 0
                    \/ position.shares = 0
            THEN NoLiquidity
            ELSE
            LET delta_shares == shares_removed - delta_b.v
                delta_reserve == (current_reserve * delta_shares) \div current_shares
                delta_hub_reserve ==
                    (delta_reserve * current_hub_reserve) \div current_reserve
                delta_position_amount ==
                    (shares_removed * position.amount) \div position.shares
                delta_imbalance ==
                    calculate_delta_imbalance(delta_hub_reserve, imbalance, total_hub_reserve)
                hub_transferred ==
                    hub_transferred_of(current_price.v, position_price.v, p_x_r,
                                       current_hub_reserve, delta_shares, current_shares)
            IN  IF ~IsSome(delta_imbalance) \/ ~IsSome(hub_transferred) THEN NoLiquidity
                ELSE [tag |-> "Some",
                      asset |-> [delta_reserve |-> Decrease(delta_reserve),
                                 delta_hub_reserve |-> Decrease(delta_hub_reserve),
                                 delta_shares |-> Decrease(delta_shares),
                                 delta_protocol_shares |-> Increase(delta_b.v)],
                      delta_imbalance |-> Increase(delta_imbalance.v),
                      lp_hub_amount |-> hub_transferred.v,
                      delta_position_reserve |-> Decrease(delta_position_amount),
                      delta_position_shares |-> Decrease(shares_removed)]

--------------------------------------------------------------------------
\* Scenario S5 of the specification: the asset sold and the asset bought.
S5_in == [reserve |-> 1000, hub_reserve |-> 500, shares |-> 0, protocol_shares |-> 0]

S5_out == [reserve |-> 2000, hub_reserve |-> 1000, shares |-> 0, protocol_shares |-> 0]

TradeAssetStates ==
    [reserve : 0..MaxOmni, hub_reserve : 0..MaxOmni, shares : {0}, protocol_shares : {0}]

\* 0%, 10%, 50% and 100%.
Fees == {0, PermillAccuracy \div 10, PermillAccuracy \div 2, PermillAccuracy}

OmniTradeArgs ==
    [asset_in_state : TradeAssetStates \cup {S5_in},
     asset_out_state : TradeAssetStates \cup {S5_out},
     amount : 0..MaxOmni \cup {100},
     asset_fee : Fees, protocol_fee : Fees,
     imbalance : {0, 1, MaxOmni}]

I129s == [value : 0..MaxSwap, negative : {TRUE}]

Init_calculate_sell_state_changes ==
    /\ fn = "calculate_sell_state_changes"
    /\ args \in OmniTradeArgs
    /\ ret = Pending

Do_calculate_sell_state_changes ==
    /\ fn = "calculate_sell_state_changes"
    /\ ret.tag = "Pending"
    /\ ret' = calculate_sell_state_changes(args.asset_in_state, args.asset_out_state,
                  args.amount, args.asset_fee, args.protocol_fee, args.imbalance)
    /\ UNCHANGED <<fn, args>>

Init_calculate_buy_state_changes ==
    /\ fn = "calculate_buy_state_changes"
    /\ args \in OmniTradeArgs
    /\ ret = Pending

Do_calculate_buy_state_changes ==
    /\ fn = "calculate_buy_state_changes"
    /\ ret.tag = "Pending"
    /\ ret' = calculate_buy_state_changes(args.asset_in_state, args.asset_out_state,
                  args.amount, args.asset_fee, args.protocol_fee, args.imbalance)
    /\ UNCHANGED <<fn, args>>

Init_calculate_imbalance_in_hub_swap ==
    /\ fn = "calculate_imbalance_in_hub_swap"
    /\ args \in [total_hub_reserve : 0..MaxSwap \cup {LargeHub}, asset_reserve : 0..MaxSwap,
                 asset_hub_reserve : 0..MaxSwap, delta_reserve : 0..MaxSwap,
                 delta_hub_reserve : 0..MaxSwap, imbalance : I129s]
    /\ ret = Pending

Do_calculate_imbalance_in_hub_swap ==
    /\ fn = "calculate_imbalance_in_hub_swap"
    /\ ret.tag = "Pending"
    /\ ret' = calculate_imbalance_in_hub_swap(args.total_hub_reserve, args.asset_reserve,
                  args.asset_hub_reserve, args.delta_reserve, args.delta_hub_reserve,
                  args.imbalance)
    /\ UNCHANGED <<fn, args>>

LiquidityAssetStates ==
    [reserve : 0..MaxLiq, hub_reserve : 0..MaxLiq, shares : 0..MaxLiq,
     protocol_shares : {0}]

Positions ==
    [amount : {MaxLiq}, shares : 0..MaxLiq, price : (0..MaxLiq) \X (0..MaxLiq)]

LiquidityImbalances ==
    {[value |-> 0, negative |-> TRUE], [value |-> 1, negative |-> TRUE],
     [value |-> 1, negative |-> FALSE]}

Init_calculate_remove_liquidity_state_changes ==
    /\ fn = "calculate_remove_liquidity_state_changes"
    /\ args \in [asset_state : LiquidityAssetStates, shares_removed : 0..MaxLiq,
                 position : Positions, imbalance : LiquidityImbalances,
                 total_hub_reserve : {0, 2 * MaxLiq}]
    /\ ret = Pending

Do_calculate_remove_liquidity_state_changes ==
    /\ fn = "calculate_remove_liquidity_state_changes"
    /\ ret.tag = "Pending"
    /\ ret' = calculate_remove_liquidity_state_changes(args.asset_state,
                  args.shares_removed, args.position, args.imbalance,
                  args.total_hub_reserve)
    /\ UNCHANGED <<fn, args>>

AddImbalances == [value : 0..MaxLiq, negative : BOOLEAN]

Init_calculate_add_liquidity_state_changes ==
    /\ fn = "calculate_add_liquidity_state_changes"
    /\ args \in [asset_state : LiquidityAssetStates, amount : 0..MaxLiq,
                 imbalance : AddImbalances, total_hub_reserve : 0..(2 * MaxLiq)]
    /\ ret = Pending

Do_calculate_add_liquidity_state_changes ==
    /\ fn = "calculate_add_liquidity_state_changes"
    /\ ret.tag = "Pending"
    /\ ret' = calculate_add_liquidity_state_changes(args.asset_state, args.amount,
                  args.imbalance, args.total_hub_reserve)
    /\ UNCHANGED <<fn, args>>

InitOmnipool ==
    \/ Init_calculate_sell_state_changes
    \/ Init_calculate_buy_state_changes
    \/ Init_calculate_imbalance_in_hub_swap
    \/ Init_calculate_remove_liquidity_state_changes
    \/ Init_calculate_add_liquidity_state_changes

NextOmnipool ==
    \/ Do_calculate_sell_state_changes
    \/ Do_calculate_buy_state_changes
    \/ Do_calculate_imbalance_in_hub_swap
    \/ Do_calculate_remove_liquidity_state_changes
    \/ Do_calculate_add_liquidity_state_changes

SpecOmnipool == InitOmnipool /\ [][NextOmnipool]_vars

--------------------------------------------------------------------------
PositiveReserves(st) == st.reserve > 0 /\ st.hub_reserve > 0

\* The buy of exactly the amount the sell returned, on the same states.
C3_buy ==
    calculate_buy_state_changes(args.asset_in_state, args.asset_out_state,
        ret.asset_out.delta_reserve.value, args.asset_fee, args.protocol_fee,
        args.imbalance)

C3_Case ==
    /\ Done("calculate_sell_state_changes")
    /\ ret.tag = "Some"
    /\ C3_buy.tag = "Some"

\* C3 as stated: buying exactly the amount a sell returned requires an input
\* >= the sell's input.  (Stated for asset states with positive reserves and a
\* sell that returned a non-zero amount.)
C3_BuyInputNotSmaller ==
    (/\ C3_Case
     /\ PositiveReserves(args.asset_in_state)
     /\ PositiveReserves(args.asset_out_state)
     /\ ret.asset_out.delta_reserve.value > 0)
        => C3_buy.asset_in.delta_reserve.value >= args.amount

\* C3 amended: the buy's input may be smaller than the sell's input, but the
\* buy never underpays the pool: the hub amount taken from the asset-in side
\* covers the hub amount given to the asset-out side, and on both sides the
\* product reserve * hub_reserve does not decrease.
C3_BuyNeverUnderpays ==
    C3_Case =>
        LET b == C3_buy
            i == args.asset_in_state
            o == args.asset_out_state
        IN  /\ b.asset_in.delta_hub_reserve.value >= b.asset_out.delta_hub_reserve.value
            /\ (i.reserve + b.asset_in.delta_reserve.value)
                   * (i.hub_reserve - b.asset_in.delta_hub_reserve.value)
               >= i.reserve * i.hub_reserve
            /\ (o.hub_reserve + b.asset_out.delta_hub_reserve.value)
                   * (o.reserve - b.asset_out.delta_reserve.value)
               >= o.hub_reserve * o.reserve

\* C3 witness: scenario S5 without fees, where selling 100 returns 86 and
\* buying 86 costs less than 100.
C3_Witness ==
    /\ C3_Case
    /\ args.asset_in_state = S5_in
    /\ args.asset_out_state = S5_out
    /\ args.amount = 100
    /\ args.asset_fee = 0
    /\ args.protocol_fee = 0
    /\ C3_buy.asset_in.delta_reserve.value < 100

C6_dQ_in ==
    (args.amount * args.asset_in_state.hub_reserve)
        \div (args.asset_in_state.reserve + args.amount)

C6_dQ_out == C6_dQ_in - ((args.protocol_fee * C6_dQ_in) \div 1000000)

C6_dR_out ==
    ((1000000 - args.asset_fee)
        * ((args.asset_out_state.reserve * C6_dQ_out)
              \div (args.asset_out_state.hub_reserve + C6_dQ_out))) \div 1000000

C6_IsS5 ==
    /\ args.asset_in_state = S5_in
    /\ args.asset_out_state = S5_out
    /\ args.amount = 100
    /\ args.asset_fee = 0
    /\ args.protocol_fee = 0

\* C6: whenever calculate_sell_state_changes returns Some,
\* asset_in.delta_hub_reserve = floor(amount * Q_in / (R_in + amount)),
\* asset_out.delta_hub_reserve = that minus floor(protocol_fee * that), and
\* asset_out.delta_reserve = floor((1 - asset_fee) * floor(R_out * dQ_out /
\* (Q_out + dQ_out))); scenario S5 gives 45 and 86.
C6_SellFormulas ==
    (Done("calculate_sell_state_changes") /\ ret.tag = "Some") =>
        /\ ret.asset_in.delta_hub_reserve.value = C6_dQ_in
        /\ ret.asset_out.delta_hub_reserve.value = C6_dQ_out
        /\ ret.asset_out.delta_reserve.value = C6_dR_out
        /\ C6_IsS5 =>
              /\ ret.asset_in.delta_hub_reserve.value = 45
              /\ ret.asset_out.delta_reserve.value = 86

\* C6 witness: the sell of scenario S5 has been computed.
C6_Witness ==
    Done("calculate_sell_state_changes") /\ ret.tag = "Some" /\ C6_IsS5

C9_Case ==
    Done("calculate_remove_liquidity_state_changes") /\ ret.tag = "Some"

\* A position with a positive entry price on an asset with positive reserves.
PricedPosition ==
    /\ PositiveReserves(args.asset_state)
    /\ args.position.price[1] > 0
    /\ args.position.price[2] > 0

\* The removal respects the share invariants.
SharesWithinIssuance ==
    /\ args.shares_removed <= args.position.shares
    /\ args.position.shares <= args.asset_state.shares

\* Current price Q / R and position price n / d as FixedU128 inner values.
C9_current_price ==
    (args.asset_state.hub_reserve * FixedDIV) \div args.asset_state.reserve

C9_position_price ==
    (args.position.price[1] * FixedDIV) \div args.position.price[2]

\* floor(((pR - Q) * s) / (pR + Q)) + 1
C9_formula(pR) ==
    (((pR - args.asset_state.hub_reserve) * args.shares_removed)
        \div (pR + args.asset_state.hub_reserve)) + 1

\* Position price times current reserve, as the fixed-point product.
C9_pR_fixed == (C9_position_price * args.asset_state.reserve) \div FixedDIV

\* The formula with the position price taken as the exact ratio n / d:
\* numerator and denominator of the quotient both multiplied by d.
C9_formula_exact ==
    (((args.position.price[1] * args.asset_state.reserve
          - args.position.price[2] * args.asset_state.hub_reserve)
        * args.shares_removed)
      \div (args.position.price[1] * args.asset_state.reserve
              + args.position.price[2] * args.asset_state.hub_reserve)) + 1

\* C9 as stated: below the position price the protocol-share delta is
\* floor(((p*R - Q) * s) / (p*R + Q)) + 1 with p*R the position price times
\* the current reserve (read either as the fixed-point product or as the exact
\* ratio); otherwise it is 0, and lp_hub_amount is non-zero only above.
C9_DeltaBWithPlainProduct ==
    (C9_Case /\ PricedPosition /\ SharesWithinIssuance) =>
        /\ C9_current_price < C9_position_price =>
              \/ ret.asset.delta_protocol_shares.value = C9_formula(C9_pR_fixed)
              \/ ret.asset.delta_protocol_shares.value = C9_formula_exact
        /\ ~(C9_current_price < C9_position_price) =>
              ret.asset.delta_protocol_shares.value = 0
        /\ ret.lp_hub_amount # 0 => C9_current_price > C9_position_price

\* C9 amended: the product in the formula is the fixed-point product of the
\* position price and the current reserve rounded down, plus one; the prices
\* compared are the fixed-point prices.
C9_DeltaBWithProductPlusOne ==
    C9_Case =>
        /\ C9_current_price < C9_position_price =>
              ret.asset.delta_protocol_shares.value = C9_formula(C9_pR_fixed + 1)
        /\ ~(C9_current_price < C9_position_price) =>
              ret.asset.delta_protocol_shares.value = 0
        /\ ret.lp_hub_amount # 0 => C9_current_price > C9_position_price

\* C9 witness: a removal below the position price that moved shares to the
\* protocol, and whose result differs from the formula with the plain product.
C9_Witness ==
    /\ C9_Case
    /\ C9_current_price < C9_position_price
    /\ PricedPosition
    /\ SharesWithinIssuance
    /\ args.shares_removed > 0
    /\ ret.asset.delta_protocol_shares.value # C9_formula(C9_pR_fixed)
    /\ ret.asset.delta_protocol_shares.value # C9_formula_exact

\* C10 as stated: None whenever shares_removed exceeds the asset's shares or
\* the position's shares, and a returned delta_reserve never exceeds the
\* asset reserve.  (Stated for priced positions on positive reserves.)
C10_ShareInvariantsRejected ==
    (Done("calculate_remove_liquidity_state_changes") /\ PricedPosition) =>
        /\ (\/ args.shares_removed > args.asset_state.shares
            \/ args.shares_removed > args.position.shares) => ret.tag = "None"
        /\ ret.tag = "Some" =>
              ret.asset.delta_reserve.value <= args.asset_state.reserve

--------------------------------------------------------------------------
(***************************************************************************)
(* EMA oracle math (ema/math.rs).  The integer widths are scaled by one    *)
(* parameter: u128 (Rational128, Balance) has EmaBits bits, U256 twice as  *)
(* many, U512 four times as many, the 383-bit reduction of `round` becomes *)
(* 3 * EmaBits - 1 bits, and Fraction has EmaBits - 1 fractional bits.     *)
(***************************************************************************)
EmaBits == 3

MaxEmaIter == 3

U128Max == Pow(2, EmaBits) - 1

U512Max == Pow(2, 4 * EmaBits) - 1

\* crate::fraction::DIV, the value of Fraction::ONE in bits.
FractionDIV == Pow(2, EmaBits - 1)

\* U512::bits(): the length of the binary representation.
RECURSIVE bits(_)
bits(x) == IF x = 0 THEN 0 ELSE 1 + bits(x \div 2)

\* x >> shift
shr(x, shift) == x \div Pow(2, shift)

low_u128(x) == x % (U128Max + 1)

wide_saturating_add(a, b) == Min(a + b, U512Max)

wide_saturating_mul(a, b) == Min(a * b, U512Max)

wide_saturating_sub(a, b) == IF a >= b THEN a - b ELSE 0

\* Rational128::from(n, d): a zero denominator becomes 1.
Rational128_from(n, d) == [n |-> n, d |-> Max(d, 1)]

\* Ord for Rational128: comparison by cross-multiplication.
rational_ge(a, b) == a.n * b.d >= b.n * a.d

\* Mutant of saturating_sub: the cross products are added.
saturating_sub_adds(l, r) ==
    IF l.n = 0 \/ r.n = 0 THEN [n |-> l.n, d |-> l.d]
    ELSE [n |-> l.n * r.d + r.n * l.d, d |-> l.d * r.d]

saturating_sub(l, r) ==
    IF l.n = 0 \/ r.n = 0 THEN [n |-> l.n, d |-> l.d]
    ELSE [n |-> wide_saturating_sub(l.n * r.d, r.n * l.d), d |-> l.d * r.d]

multiply(f, r) ==
    IF f = 0 \/ r.n = 0 THEN [n |-> 0, d |-> 1]
    ELSE IF f = FractionDIV THEN r
    ELSE [n |-> r.n * f, d |-> r.d * FractionDIV]

to_bias(rounding, magnitude) ==
    CASE rounding = "Nearest" -> <<0, 0>>
      [] rounding = "Down" -> <<0, magnitude>>
      [] rounding = "Up" -> <<magnitude, 0>>

round(r, rounding) ==
    LET shift == Max(Max(bits(r.n), bits(r.d)) - (3 * EmaBits - 1), 0)
    IN  IF shift > 0
        THEN LET min_n == IF r.n = 0 THEN 0 ELSE 1
                 bias == to_bias(rounding, 1)
             IN  [n |-> Max(wide_saturating_add(shr(r.n, shift), bias[1]), min_n),
                  d |-> Max(wide_saturating_add(shr(r.d, shift), bias[2]), 1)]
        ELSE r

round_to_rational(r, rounding) ==
    LET shift == Max(Max(bits(r.n), bits(r.d)) - EmaBits, 0)
    IN  IF shift > 0
        THEN LET min_n == IF r.n = 0 THEN 0 ELSE 1
                 bias == to_bias(rounding, 1)
                 shifted_n == low_u128(shr(r.n, shift))
                 shifted_d == low_u128(shr(r.d, shift))
             IN  Rational128_from(Max(Min(shifted_n + bias[1], U128Max), min_n),
                                  Max(Min(shifted_d + bias[2], U128Max), 1))
        ELSE Rational128_from(low_u128(r.n), low_u128(r.d))

rounding_add(l, r, rounding) ==
    IF l.n = 0 THEN round_to_rational(r, "Nearest")
    ELSE IF r.n = 0 THEN l
    ELSE LET rr == round(r, rounding)
             n == wide_saturating_add(wide_saturating_mul(l.n, rr.d),
                                      wide_saturating_mul(rr.n, l.d))
             d == wide_saturating_mul(l.d, rr.d)
         IN  round_to_rational([n |-> n, d |-> d], rounding)

rounding_sub(l, r, rounding) ==
    IF l.n = 0 \/ r.n = 0 THEN l
    ELSE LET rr == round(r, rounding)
             n == wide_saturating_sub(wide_saturating_mul(l.n, rr.d),
                                      wide_saturating_mul(rr.n, l.d))
             d == wide_saturating_mul(l.d, rr.d)
         IN  round_to_rational([n |-> n, d |-> d], rounding)

price_weighted_average(prev, incoming, weight) ==
    IF rational_ge(incoming, prev)
    THEN rounding_add(prev, multiply(weight, saturating_sub(incoming, prev)), "Down")
    ELSE rounding_sub(prev, multiply(weight, saturating_sub(prev, incoming)), "Up")

\* fraction::multiply_by_balance: floor(f * balance / DIV).
multiply_by_balance(f, balance) == (f * balance) \div FractionDIV

\* saturating_powi_high_precision: base^exponent rounded down to a Fraction,
\* clamped to [0, 1].
saturating_powi_high_precision(base, exponent) ==
    IF exponent = 0 THEN FractionDIV
    ELSE Min(Pow(base, exponent) \div Pow(FractionDIV, exponent - 1), FractionDIV)

\* Mutant of exp_smoothing: the smoothing factor itself is exponentiated.
exp_smoothing_of_factor(smoothing, iterations) ==
    FractionDIV - saturating_powi_high_precision(smoothing, iterations)

exp_smoothing(smoothing, iterations) ==
    LET complement == FractionDIV - smoothing
        exp_complement == saturating_powi_high_precision(complement, iterations)
    IN  FractionDIV - exp_complement

\* The result of a bare + or - on Balance that leaves 0..u128::MAX.
Overflow == [tag |-> "Overflow", v |-> 0]

bare(x) == IF x < 0 \/ x > U128Max THEN Overflow ELSE Some(x)

\* Mutant of balance_weighted_average: the incoming < prev branch adds.
balance_weighted_average_always_adds(prev, incoming, weight) ==
    IF incoming >= prev
    THEN bare(prev + multiply_by_balance(weight, incoming - prev))
    ELSE bare(prev + multiply_by_balance(weight, prev - incoming))

balance_weighted_average(prev, incoming, weight) ==
    IF incoming >= prev
    THEN bare(prev + multiply_by_balance(weight, incoming - prev))
    ELSE bare(prev - multiply_by_balance(weight, prev - incoming))

iterated_balance_ema(iterations, prev, incoming, smoothing) ==
    balance_weighted_average(prev, incoming, exp_smoothing(smoothing, iterations))

iterated_price_ema(iterations, prev, incoming, smoothing) ==
    price_weighted_average(prev, incoming, exp_smoothing(smoothing, iterations))

Prices == [n : 0..U128Max, d : 1..U128Max]

Balances == 0..U128Max

\* Fractions in [0, 1], as bits.
Weights == 0..FractionDIV

\* Smoothing factors in (0, 1], as bits.
Smoothings == 1..FractionDIV

Init_price_weighted_average ==
    /\ fn = "price_weighted_average"
    /\ args \in [prev : Prices, incoming : Prices, weight : Weights]
    /\ ret = Pending

Do_price_weighted_average ==
    /\ fn = "price_weighted_average"
    /\ ret.tag = "Pending"
    /\ ret' = [tag |-> "Some",
               v |-> price_weighted_average(args.prev, args.incoming, args.weight)]
    /\ UNCHANGED <<fn, args>>

Init_balance_weighted_average ==
    /\ fn = "balance_weighted_average"
    /\ args \in [prev : Balances, incoming : Balances, weight : Weights]
    /\ ret = Pending

Do_balance_weighted_average ==
    /\ fn = "balance_weighted_average"
    /\ ret.tag = "Pending"
    /\ ret' = balance_weighted_average(args.prev, args.incoming, args.weight)
    /\ UNCHANGED <<fn, args>>

Init_iterated_balance_ema ==
    /\ fn = "iterated_balance_ema"
    /\ args \in [iterations : 0..MaxEmaIter, prev : Balances, incoming : Balances,
                 smoothing : Smoothings]
    /\ ret = Pending

Do_iterated_balance_ema ==
    /\ fn = "iterated_balance_ema"
    /\ ret.tag = "Pending"
    /\ ret' = iterated_balance_ema(args.iterations, args.prev, args.incoming,
                                   args.smoothing)
    /\ UNCHANGED <<fn, args>>

Init_iterated_price_ema ==
    /\ fn = "iterated_price_ema"
    /\ args \in [iterations : {0, 1, MaxEmaIter}, prev : Prices, incoming : Prices,
                 smoothing : Smoothings]
    /\ ret = Pending

Do_iterated_price_ema ==
    /\ fn = "iterated_price_ema"
    /\ ret.tag = "Pending"
    /\ ret' = [tag |-> "Some",
               v |-> iterated_price_ema(args.iterations, args.prev, args.incoming,
                                        args.smoothing)]
    /\ UNCHANGED <<fn, args>>

\* Largest of the small values drawn for a wide numerator or denominator.
MaxWide == 20

\* Wide values: the small ones, and around every power of two from the
\* 128-bit stand-in up to the 512-bit one.
WideValues ==
    0..MaxWide
    \cup {Pow(2, k) : k \in EmaBits..(4 * EmaBits - 1)}
    \cup {Pow(2, k) - 1 : k \in EmaBits..(4 * EmaBits)}
    \cup {Pow(2, k) - 2 : k \in EmaBits..(4 * EmaBits)}

Roundings == {"Nearest", "Down", "Up"}

WideRationalArgs == [n : WideValues, d : WideValues \ {0}, rounding : Roundings]

Init_round ==
    /\ fn = "round"
    /\ args \in WideRationalArgs
    /\ ret = Pending

Do_round ==
    /\ fn = "round"
    /\ ret.tag = "Pending"
    /\ ret' = [tag |-> "Some", v |-> round([n |-> args.n, d |-> args.d], args.rounding)]
    /\ UNCHANGED <<fn, args>>

Init_round_to_rational ==
    /\ fn = "round_to_rational"
    /\ args \in WideRationalArgs
    /\ ret = Pending

Do_round_to_rational ==
    /\ fn = "round_to_rational"
    /\ ret.tag = "Pending"
    /\ ret' = [tag |-> "Some",
               v |-> round_to_rational([n |-> args.n, d |-> args.d], args.rounding)]
    /\ UNCHANGED <<fn, args>>

InitEma ==
    \/ Init_price_weighted_average
    \/ Init_balance_weighted_average
    \/ Init_iterated_balance_ema
    \/ Init_iterated_price_ema
    \/ Init_round
    \/ Init_round_to_rational

NextEma ==
    \/ Do_price_weighted_average
    \/ Do_balance_weighted_average
    \/ Do_iterated_balance_ema
    \/ Do_iterated_price_ema
    \/ Do_round
    \/ Do_round_to_rational

SpecEma == InitEma /\ [][NextEma]_vars

--------------------------------------------------------------------------
rational_le(a, b) == a.n * b.d <= b.n * a.d

\* C4: for prices with denominator > 0 and a weight in [0, 1],
\* price_weighted_average returns r with min(prev, incoming) <= r <=
\* max(prev, incoming), compared by cross-multiplication.
C4_PriceAverageBracketed ==
    Done("price_weighted_average") =>
        \/ /\ rational_le(args.prev, ret.v)
           /\ rational_le(ret.v, args.incoming)
        \/ /\ rational_le(args.incoming, ret.v)
           /\ rational_le(ret.v, args.prev)

\* C5: balance_weighted_average for every weight in [0, 1], and
\* iterated_balance_ema for every smoothing in (0, 1] and iteration count,
\* return a value between min(prev, incoming) and max(prev, incoming)
\* inclusive; the bare + and - never leave the Balance range.
C5_BalanceAverageBracketed ==
    (Done("balance_weighted_average") \/ Done("iterated_balance_ema")) =>
        /\ ret.tag = "Some"
        /\ Min(args.prev, args.incoming) <= ret.v
        /\ ret.v <= Max(args.prev, args.incoming)

\* C5 witness: an iterated EMA that moved strictly between a larger previous
\* value and a smaller incoming one.
C5_Witness ==
    /\ Done("iterated_balance_ema")
    /\ ret.tag = "Some"
    /\ args.iterations > 1
    /\ args.incoming < ret.v
    /\ ret.v < args.prev

--------------------------------------------------------------------------
\* The out reserve after the asset fee: floor((1 - asset_fee) * R_out).
C11_reserve_no_fee ==
    ((1000000 - args.asset_fee) * args.asset_out_state.reserve) \div 1000000

\* The hub amount the buyer's side must give up, where it is defined:
\* floor((floor(Q_out * x / (R' - x)) + 1) / (1 - protocol_fee)).
C11_required_defined ==
    C11_reserve_no_fee > args.amount /\ args.protocol_fee < 1000000

C11_delta_hub_reserve_in ==
    ((((args.asset_out_state.hub_reserve * args.amount)
          \div (C11_reserve_no_fee - args.amount)) + 1) * 1000000)
        \div (1000000 - args.protocol_fee)

\* C11: calculate_buy_state_changes returns None whenever the hub amount to
\* take from the asset-in side is >= asset_in_state.hub_reserve and whenever
\* the amount bought is >= the fee-reduced out reserve; in every Some result
\* delta_hub_reserve_in < asset_in_state.hub_reserve.
C11_BuyGuards ==
    Done("calculate_buy_state_changes") =>
        /\ (/\ C11_required_defined
            /\ C11_delta_hub_reserve_in >= args.asset_in_state.hub_reserve)
              => ret.tag = "None"
        /\ args.amount >= C11_reserve_no_fee => ret.tag = "None"
        /\ ret.tag = "Some" =>
              /\ C11_required_defined
              /\ ret.asset_in.delta_hub_reserve.value = C11_delta_hub_reserve_in
              /\ ret.asset_in.delta_hub_reserve.value < args.asset_in_state.hub_reserve

\* C11 witness: a buy on positive reserves refused only because the hub
\* amount required reaches the asset-in hub reserve.
C11_Witness ==
    /\ Done("calculate_buy_state_changes")
    /\ ret.tag = "None"
    /\ PositiveReserves(args.asset_in_state)
    /\ PositiveReserves(args.asset_out_state)
    /\ args.amount > 0
    /\ C11_required_defined
    /\ C11_delta_hub_reserve_in >= args.asset_in_state.hub_reserve

\* C12: calculate_add_liquidity_state_changes returns delta_shares =
\* floor(shares * amount / reserve) and delta_imbalance =
\* floor(delta_hub_reserve * |L| / Q) when the imbalance L is negative; it
\* returns None for every positive non-zero imbalance; a zero imbalance yields
\* delta_imbalance = 0.
C12_AddLiquidityFormulas ==
    Done("calculate_add_liquidity_state_changes") =>
        /\ (~args.imbalance.negative /\ args.imbalance.value # 0) => ret.tag = "None"
        /\ ret.tag = "Some" =>
              /\ ret.asset.delta_shares.value
                    = (args.asset_state.shares * args.amount) \div args.asset_state.reserve
              /\ args.imbalance.value = 0 => ret.delta_imbalance.value = 0
              /\ (args.imbalance.negative /\ args.imbalance.value # 0) =>
                    ret.delta_imbalance.value
                        = (ret.asset.delta_hub_reserve.value * args.imbalance.value)
                              \div args.total_hub_reserve

\* C12 witness: liquidity added under a negative imbalance, with shares minted
\* and the imbalance reduced.
C12_Witness ==
    /\ Done("calculate_add_liquidity_state_changes")
    /\ ret.tag = "Some"
    /\ args.imbalance.negative
    /\ ret.delta_imbalance.value > 0
    /\ ret.asset.delta_shares.value > 0

\* xp with its k-th reserve replaced by v.
WithReserve(xp, k, v) == [xp EXCEPT ![k] = v]

\* The largest reserve drawn for vectors of this length.
MaxReserveOf(xp) == IF Len(xp) = 2 THEN MaxReserve2 ELSE MaxReserve3

C13_Case == Done("calculate_d") /\ IsSome(ret)

\* C13 as stated: for fixed amplification, precision and iteration cap, if xp'
\* equals xp except that one reserve is larger and calculate_d returns Some for
\* both, then calculate_d(xp') >= calculate_d(xp).  (Stated for reserve
\* vectors without zero reserves.)
C13_DMonotone ==
    (C13_Case /\ ReservesAtLeast(args.xp, 1)) =>
        \A k \in 1..Len(args.xp) :
            \A v \in (args.xp[k] + 1)..MaxReserveOf(args.xp) :
                LET d2 == calculate_d(args.N, WithReserve(args.xp, k, v),
                                      args.amplification, args.precision)
                IN  IsSome(d2) => d2.v >= ret.v

\* C13 amended: the same, for reserve vectors without zero reserves and a
\* precision of at most 2 (the correction added by every Newton step).
C13_DMonotoneAtFinePrecision ==
    (C13_Case /\ ReservesAtLeast(args.xp, 1) /\ args.precision <= 2) =>
        \A k \in 1..Len(args.xp) :
            \A v \in (args.xp[k] + 1)..MaxReserveOf(args.xp) :
                LET d2 == calculate_d(args.N, WithReserve(args.xp, k, v),
                                      args.amplification, args.precision)
                IN  IsSome(d2) => d2.v >= ret.v

\* C13 witness: a converged D of non-zero reserves that strictly grows when
\* one reserve grows by one.
C13_Witness ==
    /\ C13_Case
    /\ ReservesAtLeast(args.xp, 2)
    /\ args.precision <= 2
    /\ args.xp[1] < MaxReserveOf(args.xp)
    /\ calculate_d_run(args.N, args.xp, args.amplification, args.precision).converged
    /\ calculate_d(args.N, WithReserve(args.xp, 1, args.xp[1] + 1),
                   args.amplification, args.precision).v > ret.v

--------------------------------------------------------------------------
\* The k-th Newton iterate of D, convergence ignored: None once a checked
\* operation has failed.
RECURSIVE d_iterate(_, _, _, _, _)
d_iterate(k, xp_hp, s_hp, ann, n_coins) ==
    IF k = 0 THEN Some(s_hp)
    ELSE LET prev == d_iterate(k - 1, xp_hp, s_hp, ann, n_coins)
         IN  IF IsSome(prev) THEN d_step(prev.v, xp_hp, s_hp, ann, n_coins) ELSE None

\* The k-th Newton iterate of y, convergence ignored.
RECURSIVE y_iterate(_, _, _, _)
y_iterate(k, b, c, d) ==
    IF k = 0 THEN Some(d)
    ELSE LET prev == y_iterate(k - 1, b, c, d)
         IN  IF IsSome(prev) THEN y_step(prev.v, b, c, d) ELSE None

C14_d_iterate(k) ==
    LET xp_hp == Sort(DropZeros(args.xp))
    IN  d_iterate(k, xp_hp, SeqSum(xp_hp), calculate_ann(Len(xp_hp), args.amplification),
                  Len(xp_hp))

C14_y_iterate(k) ==
    LET xp_hp == Sort(DropZeros(args.xp))
        n_coins == Len(xp_hp) + 1
        ann == calculate_ann(n_coins, args.amplification)
    IN  y_iterate(k, SeqSum(xp_hp) + (args.d \div ann),
                  (c_fold(args.d, args.d, xp_hp, n_coins) * args.d) \div (ann * n_coins),
                  args.d)

\* No step up to the cap fails and none satisfies has_converged.
C14_d_cap_reached ==
    /\ SeqSum(args.xp) > 0
    /\ \A k \in 1..args.N :
          /\ IsSome(C14_d_iterate(k))
          /\ ~has_converged(C14_d_iterate(k - 1).v, C14_d_iterate(k).v, args.precision)

C14_y_cap_reached ==
    /\ args.amplification > 0
    /\ \A k \in 1..args.N :
          /\ IsSome(C14_y_iterate(k))
          /\ ~has_converged(C14_y_iterate(k - 1).v, C14_y_iterate(k).v, args.precision)

\* C14: calculate_d::<N> and calculate_y::<N> stop after at most N Newton
\* steps (a Some result is one of the iterates 0..N), and when no step
\* satisfies has_converged and no checked operation fails they return
\* Some(the iterate after the N-th step).
C14_StopsAtIterationCap ==
    /\ Done("calculate_d") =>
          /\ (IsSome(ret) /\ SeqSum(args.xp) > 0) =>
                \E k \in 0..args.N : C14_d_iterate(k) = Some(ret.v)
          /\ C14_d_cap_reached => ret = C14_d_iterate(args.N)
    /\ Done("calculate_y") =>
          /\ (IsSome(ret) /\ args.amplification > 0) =>
                \E k \in 0..args.N : C14_y_iterate(k) = Some(ret.v)
          /\ C14_y_cap_reached => ret = C14_y_iterate(args.N)

\* C14 witness: calculate_d ran all of its N >= 2 steps without converging.
C14_Witness ==
    /\ Done("calculate_d")
    /\ args.N >= 2
    /\ C14_d_cap_reached
    /\ IsSome(ret)

\* C15: calculate_withdraw_one_asset returns None, without aborting, whenever
\* share_asset_issuance = 0 or asset_index >= reserves.len().
C15_WithdrawRejectsBadIndex ==
    (/\ Done("calculate_withdraw_one_asset")
     /\ \/ args.share_asset_issuance = 0
        \/ args.asset_index >= Len(args.reserves))
        => ret.tag = "None"

--------------------------------------------------------------------------
\* Value equality of rationals, by cross-multiplication.
rational_eq(a, b) == a.n * b.d = b.n * a.d

\* C16: for every weight in (0, 1] and every value v,
\* balance_weighted_average(v, v, weight) = v and
\* price_weighted_average(v, v, weight) is value-equal to v.
C16_AverageOfEqualValues ==
    /\ (Done("balance_weighted_average") /\ args.prev = args.incoming /\ args.weight > 0)
          => ret = Some(args.prev)
    /\ (Done("price_weighted_average") /\ args.prev = args.incoming /\ args.weight > 0)
          => rational_eq(ret.v, args.prev)

\* C16 witness: a non-zero price averaged with itself under a weight strictly
\* between 0 and 1.
C16_Witness ==
    /\ Done("price_weighted_average")
    /\ args.prev = args.incoming
    /\ args.prev.n > 1
    /\ args.prev.d > 1
    /\ args.weight > 0
    /\ args.weight < FractionDIV

\* C17: for every smoothing in (0, 1], exp_smoothing(smoothing, 1) =
\* smoothing, hence iterated_price_ema(1, a, b, s) =
\* price_weighted_average(a, b, s) and iterated_balance_ema(1, a, b, s) =
\* balance_weighted_average(a, b, s).
C17_OneIterationIdentity ==
    /\ (Done("iterated_price_ema") /\ args.iterations = 1) =>
          /\ exp_smoothing(args.smoothing, 1) = args.smoothing
          /\ ret.v = price_weighted_average(args.prev, args.incoming, args.smoothing)
    /\ (Done("iterated_balance_ema") /\ args.iterations = 1) =>
          /\ exp_smoothing(args.smoothing, 1) = args.smoothing
          /\ ret = balance_weighted_average(args.prev, args.incoming, args.smoothing)

\* C17 witness: a one-iteration price EMA between two different prices under
\* a smoothing factor below 1 that moved the price.
C17_Witness ==
    /\ Done("iterated_price_ema")
    /\ args.iterations = 1
    /\ args.smoothing < FractionDIV
    /\ ~rational_eq(args.prev, args.incoming)
    /\ ~rational_eq(ret.v, args.prev)

\* ---------------------------------------------------------------------
\* LBP math (lbp/lbp.rs)
\* ---------------------------------------------------------------------

\* Result<_, MathError>.
Ok(x) == [tag |-> "Ok", v |-> x, e |-> "none"]

Err(error) == [tag |-> "Err", v |-> 0, e |-> error]

\* Stand-in for u32::MAX, the largest LBPWeight.
U32Max == 127

\* Largest of the small LBPWeight arguments.
MaxLbpWeight == 3

\* Largest block number of the BlockNumber type (wider than 32 bits).
MaxBlock == 5

\* Largest Balance handed to the LBP trade routines.
MaxLbpBalance == 4

\* Stand-ins for the ranges of u128 (Balance) and U256 next to u32: twice
\* and four times its width.
LbpU128Max == (U32Max + 1) * (U32Max + 1) - 1

LbpU256Max == (LbpU128Max + 1) * (LbpU128Max + 1) - 1

\* Stand-in for HYDRA_ONE (10^12).
HYDRA_ONE == 4

\* Fractional bits of FixedBalance; the integer part has as many.
FixedFracBits == 3

\* FixedBalance values are counted in units of 1 / FixedOne.
FixedOne == Pow(2, FixedFracBits)

FixedMax == FixedOne * FixedOne - 1

\* One unit stands for FixedBalance::from_num(0.00000000001).
FixedPrec == 1

\* checked_mul / checked_div of FixedBalance; None on overflow or a zero
\* divisor.
fixed_balance_checked_mul(a, b) ==
    LET r == IF (a < 0) = (b < 0) THEN (a * b) \div FixedOne
             ELSE -((-(a * b)) \div FixedOne)
    IN  IF r > FixedMax \/ r < -FixedMax THEN None ELSE Some(r)

fixed_balance_checked_div(a, b) ==
    IF b = 0 THEN None
    ELSE LET n == a * FixedOne
             r == IF (n < 0) = (b < 0) THEN (IF n < 0 THEN (-n) \div (-b) ELSE n \div b)
                  ELSE -((IF n < 0 THEN -n ELSE n) \div (IF b < 0 THEN -b ELSE b))
         IN  IF r > FixedMax \/ r < -FixedMax THEN None ELSE Some(r)

fixed_balance_checked_add(a, b) ==
    IF a + b > FixedMax \/ a + b < -FixedMax THEN None ELSE Some(a + b)

\* Panic stands for from_num overflowing the FixedBalance range.
convert_to_fixed(value) ==
    IF value = 1 THEN Some(FixedOne)
    ELSE LET f == value \div HYDRA_ONE
             r == value - f * HYDRA_ONE
         IN  IF f * FixedOne > FixedMax THEN Panic
             ELSE Some(f * FixedOne + (r * FixedOne) \div HYDRA_ONE)

\* Panic stands for to_num of a negative value.
convert_from_fixed(value) ==
    IF value < 0 THEN Panic
    ELSE LET w == value \div FixedOne
             frac == value % FixedOne
         IN  IF frac * HYDRA_ONE > FixedMax THEN None
             ELSE LET r == w * HYDRA_ONE + (frac * HYDRA_ONE) \div FixedOne
                  IN  IF r > LbpU128Max THEN None ELSE Some(r)

to_balance_from_fixed(value) ==
    LET r == convert_from_fixed(value)
    IN  IF r.tag = "Panic" THEN Panic
        ELSE IF r.tag = "None" THEN Err("Overflow")
        ELSE Ok(r.v)

round_up_fixed(value) ==
    LET r == fixed_balance_checked_add(value, FixedPrec)
    IN  IF r.tag = "None" THEN Err("Overflow") ELSE Ok(r.v)

\* Fixed-point power by binary expansion of the exponent: the integer part
\* by repeated multiplication, the fractional bits by repeated square roots.
\* FixedMax + 1 marks an overflow.
fixed_mul_sat(a, b) ==
    IF a > FixedMax \/ b > FixedMax \/ (a * b) \div FixedOne > FixedMax THEN FixedMax + 1
    ELSE (a * b) \div FixedOne

fixed_sqrt(x) ==
    CHOOSE r \in 0..(FixedMax + 1) : r * r <= x * FixedOne /\ (r + 1) * (r + 1) > x * FixedOne

RECURSIVE fixed_powi(_, _)
fixed_powi(x, n) ==
    IF n = 0 THEN FixedOne ELSE fixed_mul_sat(x, fixed_powi(x, n - 1))

RECURSIVE fixed_pow_frac(_, _, _)
fixed_pow_frac(x, frac, half) ==
    IF half = 0 THEN FixedOne
    ELSE LET root == fixed_sqrt(x)
             rest == fixed_pow_frac(root, frac % half, half \div 2)
         IN  IF frac >= half THEN fixed_mul_sat(root, rest) ELSE rest

pow(operand, exponent) ==
    IF operand < 0 \/ exponent < 0 THEN Err("Overflow")
    ELSE IF exponent = 0 THEN Ok(FixedOne)
    ELSE IF operand = 0 THEN Ok(0)
    ELSE LET r == fixed_mul_sat(fixed_powi(operand, exponent \div FixedOne),
                                fixed_pow_frac(operand, exponent % FixedOne,
                                               FixedOne \div 2))
         IN  IF r > FixedMax THEN Err("Overflow") ELSE Ok(r)

calculate_spot_price(in_reserve, out_reserve, in_weight, out_weight, amount) ==
    IF in_reserve = 0 THEN Err("ZeroReserve")
    ELSE IF amount = 0 \/ out_reserve = 0 THEN Ok(0)
    ELSE IF amount * out_reserve > LbpU256Max THEN Err("Overflow")
    ELSE IF amount * out_reserve * in_weight > LbpU256Max THEN Err("Overflow")
    ELSE IF in_reserve * out_weight > LbpU256Max THEN Err("Overflow")
    ELSE IF in_reserve * out_weight = 0 THEN Err("Overflow")
    ELSE LET spot_price == (amount * out_reserve * in_weight) \div (in_reserve * out_weight)
         IN  IF spot_price > LbpU128Max THEN Err("Overflow") ELSE Ok(spot_price)

\* The body of calculate_out_given_in after its guards, on FixedBalance values.
out_given_in_fixed(in_weight, out_weight, amount, in_reserve, out_reserve) ==
    LET weight_ratio == fixed_balance_checked_div(in_weight, out_weight)
        new_in_reserve == fixed_balance_checked_add(in_reserve, amount)
    IN  IF weight_ratio.tag = "None" \/ new_in_reserve.tag = "None" THEN Err("Overflow")
        ELSE
        LET q == fixed_balance_checked_div(in_reserve, new_in_reserve.v)
        IN  IF q.tag = "None" THEN Err("Overflow")
            ELSE
            LET ir == round_up_fixed(q.v)
            IN  IF ir.tag = "Err" THEN ir
                ELSE
                LET check == fixed_balance_checked_mul(ir.v, new_in_reserve.v)
                IN  IF check.tag = "None" \/ check.v < in_reserve THEN Panic
                    ELSE
                    LET p == pow(ir.v, weight_ratio.v)
                    IN  IF p.tag = "Err" THEN Err("Overflow")
                        ELSE
                        LET scaled == fixed_balance_checked_mul(out_reserve, p.v)
                        IN  IF scaled.tag = "None" THEN Err("Overflow")
                            ELSE
                            LET new_out_reserve_calc == round_up_fixed(scaled.v)
                            IN  IF new_out_reserve_calc.tag = "Err"
                                THEN new_out_reserve_calc
                                ELSE to_balance_from_fixed(
                                         out_reserve - new_out_reserve_calc.v)

calculate_out_given_in_lbp(in_reserve, out_reserve, in_weight, out_weight, amount) ==
    IF out_weight = 0 THEN Err("ZeroWeight")
    ELSE IF in_weight = 0 THEN Err("ZeroWeight")
    ELSE IF out_reserve = 0 THEN Err("ZeroReserve")
    ELSE IF in_reserve = 0 THEN Err("ZeroWeight")
    ELSE LET iw == convert_to_fixed(in_weight)
             ow == convert_to_fixed(out_weight)
             am == convert_to_fixed(amount)
             ir == convert_to_fixed(in_reserve)
             or == convert_to_fixed(out_reserve)
         IN  IF \E c \in {iw, ow, am, ir, or} : c.tag = "Panic" THEN Panic
             ELSE out_given_in_fixed(iw.v, ow.v, am.v, ir.v, or.v)

in_given_out_fixed(in_weight, out_weight, amount, in_reserve, out_reserve) ==
    LET weight_ratio == fixed_balance_checked_div(out_weight, in_weight)
        diff == out_reserve - amount
    IN  IF weight_ratio.tag = "None" THEN Err("Overflow")
        ELSE
        LET y == fixed_balance_checked_div(out_reserve, diff)
        IN  IF y.tag = "None" THEN Err("Overflow")
            ELSE
            LET y1 == pow(y.v, weight_ratio.v)
            IN  IF y1.tag = "Err" THEN Err("Overflow")
                ELSE
                LET r == fixed_balance_checked_mul(in_reserve, y1.v - FixedOne)
                IN  IF r.tag = "None" THEN Err("Overflow")
                    ELSE to_balance_from_fixed(r.v)

calculate_in_given_out_lbp(in_reserve, out_reserve, in_weight, out_weight, amount) ==
    LET iw == convert_to_fixed(in_weight)
        ow == convert_to_fixed(out_weight)
        am == convert_to_fixed(amount)
        ir == convert_to_fixed(in_reserve)
        or == convert_to_fixed(out_reserve)
    IN  IF \E c \in {iw, ow, am, ir, or} : c.tag = "Panic" THEN Panic
        ELSE in_given_out_fixed(iw.v, ow.v, am.v, ir.v, or.v)

\* Mutant of calculate_linear_weights: the two distances are exchanged.
calculate_linear_weights_swapped(start_x, end_x, start_y, end_y, at) ==
    IF at > end_x \/ start_x > at THEN Err("Overflow")
    ELSE IF end_x - start_x > U32Max THEN Err("Overflow")
    ELSE IF end_x - start_x = 0 THEN Err("ZeroDuration")
    ELSE Ok((start_y * (at - start_x) + end_y * (end_x - at)) \div (end_x - start_x))

\* Mutant of calculate_linear_weights: the duration is tested before the
\* distances are computed.
calculate_linear_weights_duration_first(start_x, end_x, start_y, end_y, at) ==
    IF end_x = start_x THEN Err("ZeroDuration")
    ELSE IF at > end_x \/ start_x > at THEN Err("Overflow")
    ELSE IF end_x - start_x > U32Max THEN Err("Overflow")
    ELSE Ok((start_y * (end_x - at) + end_y * (at - start_x)) \div (end_x - start_x))

calculate_linear_weights(start_x, end_x, start_y, end_y, at) ==
    IF at > end_x THEN Err("Overflow")
    ELSE IF start_x > at THEN Err("Overflow")
    ELSE IF start_x > end_x THEN Err("Overflow")
    ELSE LET d1 == end_x - at
             d2 == at - start_x
             dx == end_x - start_x
         IN  IF dx > U32Max THEN Err("Overflow")
             ELSE IF d1 > LbpU128Max \/ d2 > LbpU128Max THEN Err("Overflow")
             ELSE IF dx = 0 THEN Err("ZeroDuration")
             ELSE IF start_y * d1 > LbpU256Max \/ end_y * d2 > LbpU256Max
                     \/ start_y * d1 + end_y * d2 > LbpU256Max THEN Err("Overflow")
             ELSE LET result == (start_y * d1 + end_y * d2) \div dx
                  IN  IF result > U32Max THEN Err("Overflow") ELSE Ok(result)

LbpTradeArgs ==
    [in_reserve : 0..MaxLbpBalance, out_reserve : 0..MaxLbpBalance,
     in_weight : 0..MaxLbpWeight, out_weight : 0..MaxLbpWeight,
     amount : 0..MaxLbpBalance]

Init_calculate_spot_price ==
    /\ fn = "calculate_spot_price"
    /\ args \in LbpTradeArgs
    /\ ret = Pending

Do_calculate_spot_price ==
    /\ fn = "calculate_spot_price"
    /\ ret.tag = "Pending"
    /\ ret' = calculate_spot_price(args.in_reserve, args.out_reserve, args.in_weight,
                                   args.out_weight, args.amount)
    /\ UNCHANGED <<fn, args>>

Init_calculate_out_given_in_lbp ==
    /\ fn = "lbp::calculate_out_given_in"
    /\ args \in LbpTradeArgs
    /\ ret = Pending

Do_calculate_out_given_in_lbp ==
    /\ fn = "lbp::calculate_out_given_in"
    /\ ret.tag = "Pending"
    /\ ret' = calculate_out_given_in_lbp(args.in_reserve, args.out_reserve, args.in_weight,
                                         args.out_weight, args.amount)
    /\ UNCHANGED <<fn, args>>

Init_calculate_in_given_out_lbp ==
    /\ fn = "lbp::calculate_in_given_out"
    /\ args \in LbpTradeArgs
    /\ ret = Pending

Do_calculate_in_given_out_lbp ==
    /\ fn = "lbp::calculate_in_given_out"
    /\ ret.tag = "Pending"
    /\ ret' = calculate_in_given_out_lbp(args.in_reserve, args.out_reserve, args.in_weight,
                                         args.out_weight, args.amount)
    /\ UNCHANGED <<fn, args>>

\* Small block numbers, the blocks 25 and 100, and a block further than the
\* u32 range from block 0.
Blocks == 0..MaxBlock \cup {25, 100, U32Max + 1}

\* Small weights, the weights 2 and 98, and the largest weight.
LbpWeights == 0..MaxLbpWeight \cup {2, 98, U32Max}

Init_calculate_linear_weights ==
    /\ fn = "calculate_linear_weights"
    /\ args \in [start_x : Blocks, end_x : Blocks, start_y : LbpWeights,
                 end_y : LbpWeights, at : Blocks]
    /\ ret = Pending

Do_calculate_linear_weights ==
    /\ fn = "calculate_linear_weights"
    /\ ret.tag = "Pending"
    /\ ret' = calculate_linear_weights(args.start_x, args.end_x, args.start_y, args.end_y,
                                       args.at)
    /\ UNCHANGED <<fn, args>>

\* Balances up to the first ones whose whole part leaves the FixedBalance
\* range.
FixedInputs == 0..(HYDRA_ONE * FixedOne + 1)

Init_convert_to_fixed ==
    /\ fn = "convert_to_fixed"
    /\ args \in [value : FixedInputs]
    /\ ret = Pending

Do_convert_to_fixed ==
    /\ fn = "convert_to_fixed"
    /\ ret.tag = "Pending"
    /\ ret' = convert_to_fixed(args.value)
    /\ UNCHANGED <<fn, args>>

Init_convert_from_fixed ==
    /\ fn = "convert_from_fixed"
    /\ args \in [value : 0..FixedMax]
    /\ ret = Pending

Do_convert_from_fixed ==
    /\ fn = "convert_from_fixed"
    /\ ret.tag = "Pending"
    /\ ret' = convert_from_fixed(args.value)
    /\ UNCHANGED <<fn, args>>

InitLbp ==
    \/ Init_calculate_spot_price
    \/ Init_calculate_out_given_in_lbp
    \/ Init_calculate_in_given_out_lbp
    \/ Init_calculate_linear_weights
    \/ Init_convert_to_fixed
    \/ Init_convert_from_fixed

NextLbp ==
    \/ Do_calculate_spot_price
    \/ Do_calculate_out_given_in_lbp
    \/ Do_calculate_in_given_out_lbp
    \/ Do_calculate_linear_weights
    \/ Do_convert_to_fixed
    \/ Do_convert_from_fixed

SpecLbp == InitLbp /\ [][NextLbp]_vars

C18_Case ==
    /\ Done("calculate_linear_weights")
    /\ args.start_x < args.end_x
    /\ args.end_x - args.start_x <= U32Max
    /\ args.start_x <= args.at
    /\ args.at <= args.end_x

\* C18: for start_x < end_x with end_x - start_x representable as a u32 and
\* start_x <= at <= end_x, calculate_linear_weights returns
\* floor((start_y * (end_x - at) + end_y * (at - start_x)) / (end_x - start_x));
\* it returns start_y at at = start_x and end_y at at = end_x.
C18_LinearWeightsFormula ==
    C18_Case =>
        /\ ret = Ok((args.start_y * (args.end_x - args.at)
                     + args.end_y * (args.at - args.start_x))
                    \div (args.end_x - args.start_x))
        /\ (args.at = args.start_x => ret = Ok(args.start_y))
        /\ (args.at = args.end_x => ret = Ok(args.end_y))

\* C18 witness: an interpolation strictly inside the interval between two
\* different weights, whose result is neither of them.
C18_Witness ==
    /\ C18_Case
    /\ args.start_x < args.at
    /\ args.at < args.end_x
    /\ ret.tag = "Ok"
    /\ ret.v # args.start_y
    /\ ret.v # args.end_y
    /\ (args.start_y * (args.end_x - args.at) + args.end_y * (args.at - args.start_x))
          % (args.end_x - args.start_x) # 0

C19_AtOutside == args.at < args.start_x \/ args.at > args.end_x

\* C19 as stated: calculate_linear_weights returns an error whenever
\* end_x = start_x or at lies outside [start_x, end_x], and the error is
\* ZeroDuration whenever end_x = start_x, whatever the value of at.
C19_ZeroDurationWheneverEmptyInterval ==
    Done("calculate_linear_weights") =>
        /\ (args.end_x = args.start_x \/ C19_AtOutside) => ret.tag = "Err"
        /\ args.end_x = args.start_x => ret = Err("ZeroDuration")

\* C19 amended: calculate_linear_weights returns an error whenever
\* end_x = start_x or at lies outside [start_x, end_x]; the error is Overflow
\* whenever at lies outside the interval (also when end_x = start_x), and
\* ZeroDuration when end_x = start_x = at.
C19_ErrorKinds ==
    Done("calculate_linear_weights") =>
        /\ (args.end_x = args.start_x \/ C19_AtOutside) => ret.tag = "Err"
        /\ C19_AtOutside => ret = Err("Overflow")
        /\ (args.end_x = args.start_x /\ args.at = args.start_x) =>
              ret = Err("ZeroDuration")

\* C19 witness: an empty interval with at outside of it, reported as Overflow.
C19_Witness ==
    /\ Done("calculate_linear_weights")
    /\ args.end_x = args.start_x
    /\ args.at # args.start_x
    /\ ret = Err("Overflow")

C20_Routines ==
    {"calculate_spot_price", "lbp::calculate_out_given_in", "lbp::calculate_in_given_out"}

C20_ZeroReserve == args.in_reserve = 0 \/ args.out_reserve = 0

C20_ZeroWeight == args.in_weight = 0 \/ args.out_weight = 0

\* C20: calculate_spot_price, calculate_out_given_in and
\* calculate_in_given_out of the LBP return an error whenever a reserve or a
\* weight argument is zero: ZeroReserve for a zero reserve, ZeroWeight for a
\* zero weight (either of the two when both are present), never Ok.
C20_ZeroArgumentsRejected ==
    (fn \in C20_Routines /\ ret.tag # "Pending") =>
        /\ (C20_ZeroReserve \/ C20_ZeroWeight) =>
              ret \in {Err("ZeroReserve"), Err("ZeroWeight")}
        /\ (C20_ZeroReserve /\ ~C20_ZeroWeight) => ret = Err("ZeroReserve")
        /\ (C20_ZeroWeight /\ ~C20_ZeroReserve) => ret = Err("ZeroWeight")

\* The part of the statement about the guards of calculate_out_given_in: a
\* zero in_reserve next to non-zero weights and a non-zero out_reserve would
\* be reported as ZeroReserve (the guard at lbp.rs:110 reports ZeroWeight).
C20_OutGivenInZeroInReserve ==
    (Done("lbp::calculate_out_given_in") /\ args.in_reserve = 0 /\ ~C20_ZeroWeight
       /\ args.out_reserve # 0) => ret = Err("ZeroReserve")

\* The part of the statement about calculate_spot_price: a zero out_reserve
\* would never be answered with Ok (lbp.rs:35-37 answers Ok(0)).
C20_SpotPriceZeroOutReserve ==
    (Done("calculate_spot_price") /\ args.out_reserve = 0) => ret.tag # "Ok"

C21_Case ==
    /\ Done("calculate_d")
    /\ args \in ScenarioS4
    /\ args.N >= 1

\* C21 as stated: for reserves [1000, 1000], amplification 10 and precision 1,
\* calculate_d with any iteration cap N >= 1 returns D = 2000.
C21_ScenarioS4Returns2000 ==
    C21_Case => ret = Some(2000)

\* C21 amended: for reserves [1000, 1000], amplification 10 and precision 1,
\* calculate_d with any iteration cap N >= 1 returns 2002, the sum of the
\* reserves plus the correction of 2.
C21_ScenarioS4Returns2002 ==
    C21_Case => ret = Some(2002)

\* C21 witness: the scenario run under a cap of one pass and under a cap that
\* lets has_converged end the loop.
C21_Witness ==
    /\ C21_Case
    /\ args.N \in {1, MaxIter}
    /\ ret.tag = "Some"
    /\ ret.v > SeqSum(args.xp)

C22_Case ==
    /\ Done("calculate_linear_weights")
    /\ args = [start_x |-> 0, end_x |-> 100, start_y |-> 98, end_y |-> 2, at |-> 25]

\* C22 as stated: calculate_linear_weights(start_x = 0, end_x = 100,
\* start_y = 98, end_y = 2, at = 25) returns the weight 73.
C22_ScenarioS6Returns73 ==
    C22_Case => ret = Ok(73)

\* C22 amended: calculate_linear_weights(start_x = 0, end_x = 100,
\* start_y = 98, end_y = 2, at = 25) returns the weight 74, which is
\* (98 * 75 + 2 * 25) / 100 = 7400 / 100 without a remainder.
C22_ScenarioS6Returns74 ==
    C22_Case => ret = Ok(74)

\* C22 witness: the scenario has run and produced a weight strictly between
\* the final and the initial weight.
C22_Witness ==
    /\ C22_Case
    /\ ret.tag = "Ok"
    /\ args.end_y < ret.v
    /\ ret.v < args.start_y

C23_Case ==
    /\ fn \in {"calculate_out_given_in", "calculate_in_given_out"}
    /\ ret.tag # "Pending"
    /\ args.N = 0 \/ args.N_Y = 0
    /\ args.idx_in < Len(args.balances)
    /\ args.idx_out < Len(args.balances)
    /\ args.idx_in # args.idx_out

\* C23: with an iteration cap of zero (N = 0 or N_Y = 0) the stableswap
\* trade functions calculate_out_given_in and calculate_in_given_out return
\* None for every input (stated here for two different valid indices).
C23_ZeroCapAlwaysFails ==
    C23_Case => ret = None

\* The same for in_given_out alone, with a full cap for D, balances of at
\* least 2 and a non-zero amount that the pool holds.
C23_InGivenOutZeroYCapFails ==
    (C23_Case /\ fn = "calculate_in_given_out" /\ args.N = MaxIter /\ args.N_Y = 0
       /\ ReservesAtLeast(args.balances, 2) /\ args.amount > 0
       /\ args.amount < args.balances[args.idx_out + 1]) => ret = None

\* The same for out_given_in alone, with a full cap for Y, balances of at
\* least 2 and a non-zero amount.
C23_OutGivenInZeroDCapFails ==
    (C23_Case /\ fn = "calculate_out_given_in" /\ args.N = 0 /\ args.N_Y = MaxIter
       /\ ReservesAtLeast(args.balances, 2) /\ args.amount > 0) => ret = None

C24_Len == Len(args.balances)

C24_GuardPassed == args.idx_in <= C24_Len /\ args.idx_out <= C24_Len

\* C24 as stated: the index guard of calculate_y_given_in and
\* calculate_y_given_out returns None only for indices strictly greater than
\* balances.len(); for idx_in = balances.len() or idx_out = balances.len() the
\* guard is passed and the call reads balances[idx] out of bounds instead of
\* returning None.
C24_OnePastEndReadsOutOfBounds ==
    (fn \in {"calculate_y_given_in", "calculate_y_given_out"} /\ ret.tag # "Pending") =>
        /\ ~C24_GuardPassed => ret = None
        /\ (C24_GuardPassed /\ (args.idx_in = C24_Len \/ args.idx_out = C24_Len)) =>
              ret = Panic

\* The index that each routine reads: idx_in in calculate_y_given_in, idx_out
\* in calculate_y_given_out; the other index is only compared in the filter.
C24_read == IF fn = "calculate_y_given_in" THEN args.idx_in ELSE args.idx_out

C24_new_reserve ==
    IF fn = "calculate_y_given_in" THEN args.balances[C24_read + 1] + args.amount
    ELSE args.balances[C24_read + 1] - args.amount

\* What the routine returns when only the index it filters on is one past
\* the end: calculate_y over all the balances, the read one replaced.
C24_unfiltered ==
    LET d == calculate_d(args.N, args.balances, args.amplification, args.precision)
    IN  IF C24_new_reserve < 0 \/ ~IsSome(d) THEN None
        ELSE calculate_y(args.N_Y, WithReserve(args.balances, C24_read + 1, C24_new_reserve),
                         d.v, args.amplification, args.precision)

\* C24 amended: the guard returns None only for indices strictly greater
\* than balances.len().  calculate_y_given_in reads balances[idx_in] and
\* calculate_y_given_out reads balances[idx_out]: with that index equal to
\* balances.len() the read is out of bounds.  With only the other index equal
\* to balances.len() nothing is read out of bounds: no balance is filtered
\* out and the routine returns None or Some from calculate_y over all the
\* balances.
C24_OnePastEndBehaviour ==
    (fn \in {"calculate_y_given_in", "calculate_y_given_out"} /\ ret.tag # "Pending") =>
        /\ ~C24_GuardPassed => ret = None
        /\ (C24_GuardPassed /\ C24_read = C24_Len) => ret = Panic
        /\ (C24_GuardPassed /\ C24_read < C24_Len) => ret # Panic
        /\ (C24_GuardPassed /\ C24_read < C24_Len
              /\ (args.idx_in = C24_Len \/ args.idx_out = C24_Len)) => ret = C24_unfiltered

\* C24 witness: calculate_y_given_in with idx_out one past the end returned a
\* reserve instead of reading out of bounds.
C24_Witness ==
    /\ Done("calculate_y_given_in")
    /\ args.idx_out = C24_Len
    /\ args.idx_in < C24_Len
    /\ ret.tag = "Some"
    /\ ret.v > 0

C25_Case == fn \in {"round", "round_to_rational"} /\ ret.tag # "Pending"

\* C25: for every wide rational (n, d) with d > 0, round_to_rational and
\* round with Rounding::Down return a rational <= n/d and with Rounding::Up a
\* rational >= n/d; the output denominator is >= 1 and the output numerator
\* is 0 only if n = 0.
C25_RoundingDirections ==
    C25_Case =>
        /\ args.rounding = "Down" => ret.v.n * args.d <= args.n * ret.v.d
        /\ args.rounding = "Up" => ret.v.n * args.d >= args.n * ret.v.d
        /\ ret.v.d >= 1
        /\ ret.v.n = 0 => args.n = 0

\* The part of C25 that holds: the output denominator is >= 1 and the
\* output numerator is 0 only if n = 0.
C25_OutputWellFormed ==
    C25_Case => (ret.v.d >= 1 /\ (ret.v.n = 0 => args.n = 0))

C26_Case ==
    /\ fn \in {"calculate_sell_state_changes", "calculate_buy_state_changes"}
    /\ ret.tag = "Some"

\* C26: every TradeStateChange returned by calculate_sell_state_changes or
\* calculate_buy_state_changes satisfies asset_in.delta_hub_reserve =
\* asset_out.delta_hub_reserve + delta_imbalance + hdx_hub_amount, with
\* delta_imbalance <= the imbalance passed in.
C26_HubAssetConserved ==
    C26_Case =>
        /\ ret.asset_in.delta_hub_reserve.value =
              ret.asset_out.delta_hub_reserve.value + ret.delta_imbalance.value
                  + ret.hdx_hub_amount
        /\ ret.delta_imbalance.value <= args.imbalance

\* C26 witness: a buy whose protocol fee is split between the imbalance and
\* the HDX subpool.
C26_Witness ==
    /\ C26_Case
    /\ fn = "calculate_buy_state_changes"
    /\ ret.delta_imbalance.value > 0
    /\ ret.hdx_hub_amount > 0
    /\ ret.asset_out.delta_hub_reserve.value > 0

\* The same split in a sell.
C26_WitnessSell ==
    /\ C26_Case
    /\ fn = "calculate_sell_state_changes"
    /\ ret.delta_imbalance.value > 0
    /\ ret.hdx_hub_amount > 0
    /\ ret.asset_out.delta_hub_reserve.value > 0

C27_Case == Done("calculate_remove_liquidity_state_changes") /\ ret.tag = "Some"

\* C27: every LiquidityStateChange returned by
\* calculate_remove_liquidity_state_changes satisfies delta_shares +
\* delta_protocol_shares = shares_removed and delta_position_shares =
\* shares_removed, so delta_protocol_shares never exceeds shares_removed.
C27_SharesConserved ==
    C27_Case =>
        /\ ret.asset.delta_shares.value + ret.asset.delta_protocol_shares.value
              = args.shares_removed
        /\ ret.delta_position_shares.value = args.shares_removed
        /\ ret.asset.delta_protocol_shares.value <= args.shares_removed

\* C27 witness: a removal below the position's price that splits the removed
\* shares between the shares burnt and the protocol.
C27_Witness ==
    /\ C27_Case
    /\ ret.asset.delta_protocol_shares.value > 0
    /\ ret.asset.delta_shares.value > 0

C28_Case ==
    /\ Done("calculate_sell_state_changes")
    /\ ret.tag = "Some"
    /\ args.asset_in_state.reserve > 0
    /\ args.asset_in_state.hub_reserve > 0
    /\ args.asset_out_state.reserve > 0
    /\ args.asset_out_state.hub_reserve > 0

\* C28: for asset states with reserve > 0 and hub_reserve > 0 on both assets,
\* every Some result of calculate_sell_state_changes has
\* asset_out.delta_reserve < asset_out_state.reserve and
\* asset_in.delta_hub_reserve < asset_in_state.hub_reserve.
C28_SellCannotDrain ==
    C28_Case =>
        /\ ret.asset_out.delta_reserve.value < args.asset_out_state.reserve
        /\ ret.asset_in.delta_hub_reserve.value < args.asset_in_state.hub_reserve

\* C28 witness: a sell without fees of more than the whole reserve of the
\* asset sold, which pays out some of the other asset.
C28_Witness ==
    /\ C28_Case
    /\ args.amount > args.asset_in_state.reserve
    /\ args.asset_fee = 0
    /\ args.protocol_fee = 0
    /\ ret.asset_out.delta_reserve.value > 0

\* The rearrangements of xp.
Permuted(xp) ==
    {[k \in 1..Len(xp) |-> xp[p[k]]] :
        p \in {q \in [1..Len(xp) -> 1..Len(xp)] : \A a, b \in 1..Len(xp) : q[a] = q[b] => a = b}}

\* C29: calculate_d is independent of the order of its reserves: for any
\* reserve vector xp and any permutation xp' of it, calculate_d(xp', A,
\* precision) = calculate_d(xp, A, precision), including agreeing on None.
C29_DOrderIndependent ==
    Done("calculate_d") =>
        \A xq \in Permuted(args.xp) :
            calculate_d(args.N, xq, args.amplification, args.precision) = ret

\* C29 witness: three different non-zero reserves given in an order that is
\* not the sorted one, with a D that took at least one pass.
C29_Witness ==
    /\ Done("calculate_d")
    /\ Len(args.xp) = 3
    /\ args.xp[1] > args.xp[2]
    /\ args.xp[2] > args.xp[3]
    /\ args.xp[3] > 0
    /\ args.N >= 1
    /\ IsSome(ret)
    /\ ret.v > SeqSum(args.xp)

C30_Case == Done("convert_to_fixed") /\ ret.tag = "Some"

C30_Monotone ==
    \A b \in FixedInputs :
        (args.value <= b /\ convert_to_fixed(b).tag = "Some") =>
            ret.v <= convert_to_fixed(b).v

C30_RoundTripNotAbove ==
    convert_from_fixed(ret.v).tag = "Some" => convert_from_fixed(ret.v).v <= args.value

\* C30: convert_to_fixed is monotonically non-decreasing on the Balance
\* values within the FixedBalance range, and
\* convert_from_fixed(convert_to_fixed(v)) never exceeds v.
C30_ConversionMonotoneAndRoundTrip ==
    C30_Case => (C30_Monotone /\ C30_RoundTripNotAbove)

\* Both halves of C30 for every value but 1, the value that convert_to_fixed
\* turns into one whole token.
C30_HoldsExceptForOne ==
    (C30_Case /\ args.value # 1) =>
        /\ \A b \in FixedInputs \ {1} :
              (args.value <= b /\ convert_to_fixed(b).tag = "Some") =>
                  ret.v <= convert_to_fixed(b).v
        /\ C30_RoundTripNotAbove

==========================================================================
